---- MODULE Spec2Model ----
(***************************************************************************)
(* Parasut <-> Odoo synchronisation engine.                                *)
(*                                                                         *)
(* The repository holds two implementations of the engine:                 *)
(*   "settings"  : ResConfigSettings  (models/res_config_settings.py)      *)
(*   "connector" : ParasutConnector   (models/parasut_connector.py)        *)
(* Both are modelled; a run is made by one of them.                        *)
(*                                                                         *)
(* The module holds one specification per part of the engine:              *)
(*   SpecFetch  : _fetch_from_parasut, one loop iteration per step         *)
(*   SpecIdent  : account / contact / product sync, one record per step    *)
(*   SpecLedger : sales-invoice / purchase-bill / salary / tax sync        *)
(*   SpecPay    : payment sync, one open entry per step                    *)
(***************************************************************************)
EXTENDS Integers, Sequences, FiniteSets, TLC

VARIABLES
    \* ---- _fetch_from_parasut ----
    fImpl,      \* which class runs the fetch
    fPc,        \* "idle" | "loop" | "returned" | "raised"
    page,       \* local variable page
    results,    \* local variable results: the batches collected (their page numbers)
    requests,   \* the GET requests issued so far: [number, size]
    fLast,      \* the last response: "none" | "fail" | "empty" | "data"
    meta,       \* page_count of the last response's meta (NoPageCount if absent)
    fRet,       \* the value handed to the caller
    \* ---- account / contact / product sync ----
    iKind,      \* the orchestrator: "accounts" | "contacts" | "products"
    iData,      \* the external dataset: the primary records of all pages, in order
    iStore,     \* the local table (journals, partners or product templates)
    iPc,        \* "idle" | "run" | "done" | "raised"
    iRun,       \* number of runs started
    iFull,      \* per run: did every page fetch succeed
    iLen,       \* number of records the current run's fetch returned
    iPos,       \* number of records the current run has processed
    iTier,      \* tier that matched the last record (0: none, created; -1: no record yet)
    iLast,      \* the local entity written or created for the last record
    created,    \* local variable created
    updated,    \* local variable updated
    iBefore,    \* number of local entities when the current run started
    \* ---- sales-invoice / purchase-bill / salary / tax sync ----
    lImpl,      \* which class makes the current run
    lKind,      \* the orchestrator: "sales" | "bills" | "salaries" | "taxes"
    lPc,        \* "idle" | "run" | "done" | "failed"
    lChart,     \* what the chart of accounts holds: "ok" | "no_journal" | "no_accounts"
    partners,   \* table res.partner: [pid, name]
    moves,      \* table account.move: [move_type, pid, ref, state]
    processed,  \* local variable processed
    lSeen,      \* number of records the runs have gone through so far
    lRec,       \* the record the last step went through
    lOutcome,   \* what the last step did with it
    lOps,       \* the calls the last step made on the entry, in order
    lLines,     \* the line commands of the move_vals that the last step wrote
    lLog,       \* the warning or error that the last step logged: [level, id]
    \* ---- payment sync ----
    pImpl,      \* which class makes the current run
    pOp,        \* "payments" | "sales_payments"
    pPc,        \* "idle" | "sleep" | "request" | "respond" | "register" | "done"
    payables,   \* the posted entries: [move, residual, payment_state]
    ext,        \* per entry, the payments the external record carries: [id, amount]
    payQueue,   \* open_payables / open_invoices of the current run
    pIdx,       \* position of the loop in payQueue
    pPay,       \* position of the inner loop in payment_list
    registered, \* the payments registered so far: [entry, pay, amount]
    pCount,     \* local variable processed_count
    pResult,    \* what the run handed to the caller
    pLog,       \* the delays and requests of the current run, in order
    pReqs,      \* number of detail requests the runs have issued so far
    pLimited,   \* a detail request of this run was answered with status 429
    \* ---- tax resolver ----
    taxes,      \* table account.tax: [name, amount, use, incl, active, seq, base]
    tRate,      \* argument vat_rate of the last call
    tUse,       \* argument type_tax_use of the last call
    tPrev,      \* the table as the last call found it
    tRet,       \* what the last call returned: [tax, inclusive, tier]
    tCalls,     \* number of calls made so far
    tFirst,     \* the first of a row of calls: [tax, tier, use, size of the table]
    \* ---- line valuation ----
    vPc,        \* "idle" | "valued"
    vDetail,    \* the detail attributes and the tax of the line
    vPrice,     \* line_vals['price_unit'], as a fraction [num, den]
    vQuantity,  \* line_vals['quantity']
    \* ---- journal code generation ----
    cPc,        \* "idle" | "start" | "loop" | "done"
    cName,      \* the account name, a string of characters
    cExisting,  \* the codes of the journals that exist when the generation starts
    cJournals,  \* table account.journal: the codes of its rows
    code,       \* local variable code
    counter,    \* local variable counter
    cTried,     \* the candidate codes searched for so far, in order
    \* ---- credentials and configuration ----
    gImpl,      \* which class runs the operation
    gOp,        \* "fetch" (an operation that starts with a fetch) | "payments"
    gCfg,       \* which of the five configuration values are set
    gOpen,      \* does the ledger hold an open entry for payment sync
    gPc,        \* "idle" | "headers" | "token" | "company" | "request" | "done"
    gNet,       \* the requests the operation has sent, in order
    gResult,    \* how the operation ended
    gWritten,   \* the operation wrote to the ledger store
    \* ---- relationships and the included nodes of a page ----
    nPc,        \* "idle" | "run" | "done"
    nBatches,   \* per fetched page, batch['included']: the nodes [type, id]
    nPage,      \* the batch that "for batch in batches" is at
    nRef,       \* the relationship looked up last: [type, id]
    nRet        \* position in its list of the node returned last (0: None)

fetchVars == <<fImpl, fPc, page, results, requests, fLast, meta, fRet>>
identVars == <<iKind, iData, iStore, iPc, iRun, iFull, iLen, iPos, iTier, iLast,
               created, updated, iBefore>>

ledgerVars == <<lImpl, lKind, lPc, lChart, partners, moves, processed, lSeen,
                lRec, lOutcome, lOps, lLines, lLog>>

payVars == <<pImpl, pOp, pPc, payables, ext, payQueue, pIdx, pPay, registered,
             pCount, pResult, pLog, pReqs, pLimited>>

taxVars == <<taxes, tRate, tUse, tPrev, tRet, tCalls, tFirst>>

valueVars == <<vPc, vDetail, vPrice, vQuantity>>

codeVars == <<cPc, cName, cExisting, cJournals, code, counter, cTried>>

configVars == <<gImpl, gOp, gCfg, gOpen, gPc, gNet, gResult, gWritten>>

includedVars == <<nPc, nBatches, nPage, nRef, nRet>>

vars == <<fetchVars, identVars, ledgerVars, payVars, taxVars, valueVars, codeVars,
          configVars, includedVars>>

Impls == {"settings", "connector"}

(***************************************************************************)
(* Helpers                                                                 *)
(***************************************************************************)
SeqMax(q, n) == IF n = 0 THEN 0
               ELSE CHOOSE m \in {q[i] : i \in 1 .. n} : \A i \in 1 .. n : q[i] <= m

(***************************************************************************)
(* PagedFetcher: _fetch_from_parasut                                       *)
(***************************************************************************)
\* page[size] request parameter
PageSize == 25
\* the number in the loop's safety test "page > 20"
PageCap == 20
\* largest page_count the modelled server reports
MaxPageCount == 22
\* meta without a page_count key
NoPageCount == -1

PageCounts == {NoPageCount} \cup (0 .. MaxPageCount)

\* nothing of the fetch has run
FetchIdle ==
    /\ fImpl = "settings"
    /\ fPc = "idle"
    /\ page = 0
    /\ results = <<>>
    /\ requests = <<>>
    /\ fLast = "none"
    /\ meta = NoPageCount
    /\ fRet = [batches |-> <<>>]

\* nothing of the account / contact / product sync has run, and it has no data
IdentIdle ==
    /\ iKind = "accounts"
    /\ iData = <<>>
    /\ iStore = <<>>
    /\ iPc = "idle"
    /\ iRun = 0
    /\ iFull = <<>>
    /\ iLen = 0
    /\ iPos = 0
    /\ iTier = -1
    /\ iLast = 0
    /\ created = 0
    /\ updated = 0
    /\ iBefore = 0

\* no record that the ledger sync went through
NoRec == [kind |-> "none"]

\* no warning and no error was logged
NoLog == [level |-> "none", id |-> 0]

\* nothing of the sales-invoice / purchase-bill / salary / tax sync has run
LedgerIdle ==
    /\ lImpl = "settings"
    /\ lKind = "sales"
    /\ lPc = "idle"
    /\ lChart = "ok"
    /\ partners = <<>>
    /\ moves = <<>>
    /\ processed = 0
    /\ lSeen = 0
    /\ lRec = NoRec
    /\ lOutcome = "none"
    /\ lOps = <<>>
    /\ lLines = <<>>
    /\ lLog = NoLog

\* what a payment run hands to the caller before it has finished
NoResult == [kind |-> "none", processed |-> 0]

\* nothing of the payment sync has run, and there is no entry to pay
PayIdle ==
    /\ pImpl = "settings"
    /\ pOp = "payments"
    /\ pPc = "idle"
    /\ payables = <<>>
    /\ ext = <<>>
    /\ payQueue = <<>>
    /\ pIdx = 0
    /\ pPay = 0
    /\ registered = <<>>
    /\ pCount = 0
    /\ pResult = NoResult
    /\ pLog = <<>>
    /\ pReqs = 0
    /\ pLimited = FALSE

\* vat_rate is None; vat_rate is not a number
NoRate == -1
BadRate == -2

\* no tax: False
NoTax == 0

\* what _find_odoo_tax has returned before its first call
NoReturn == [tax |-> NoTax, inclusive |-> FALSE, tier |-> -1]

\* no call of the tax resolver was made, and the tax table is empty
NoFirst == [tax |-> NoTax, tier |-> -1, use |-> "sale", size |-> 0]
TaxIdle ==
    /\ taxes = <<>>
    /\ tRate = NoRate
    /\ tUse = "sale"
    /\ tPrev = <<>>
    /\ tRet = NoReturn
    /\ tCalls = 0
    /\ tFirst = NoFirst

\* no line was valued
ValueIdle ==
    /\ vPc = "idle"
    /\ vDetail = [quantity |-> 0]
    /\ vPrice = [num |-> 0, den |-> 1]
    /\ vQuantity = 0

\* no journal code was generated
CodeIdle ==
    /\ cPc = "idle"
    /\ cName = <<>>
    /\ cExisting = {}
    /\ cJournals = {}
    /\ code = <<>>
    /\ counter = 0
    /\ cTried = <<>>

\* the five values of the configuration
Credentials == {"client_id", "client_secret", "username", "password"}
CfgFields == Credentials \cup {"company_id"}

\* no operation has looked at the configuration
ConfigIdle ==
    /\ gImpl = "settings"
    /\ gOp = "fetch"
    /\ gCfg = [f \in CfgFields |-> TRUE]
    /\ gOpen = FALSE
    /\ gPc = "idle"
    /\ gNet = <<>>
    /\ gResult = "none"
    /\ gWritten = FALSE

\* no relationship has been looked up
NoRef == [type |-> "none", id |-> 0]
IncludedIdle ==
    /\ nPc = "idle"
    /\ nBatches = <<>>
    /\ nPage = 0
    /\ nRef = NoRef
    /\ nRet = 0

\* the parts that the four synchronisations leave alone when they run alone
HelpersIdle == TaxIdle /\ ValueIdle /\ CodeIdle /\ ConfigIdle /\ IncludedIdle

\* the variables of the other parts, which a part leaves alone
fetchOthers == <<identVars, ledgerVars, payVars, taxVars, valueVars, codeVars,
                 configVars, includedVars>>
identOthers == <<fetchVars, ledgerVars, payVars, taxVars, valueVars, codeVars,
                 configVars, includedVars>>
ledgerOthers == <<fetchVars, identVars, payVars, taxVars, valueVars, codeVars,
                 configVars, includedVars>>
payOthers == <<fetchVars, identVars, ledgerVars, taxVars, valueVars, codeVars,
                 configVars, includedVars>>
taxOthers == <<fetchVars, identVars, ledgerVars, payVars, valueVars, codeVars,
                 configVars, includedVars>>
valueOthers == <<fetchVars, identVars, ledgerVars, payVars, taxVars, codeVars,
                 configVars, includedVars>>
configOthers == <<fetchVars, identVars, ledgerVars, payVars, taxVars, valueVars,
                  codeVars, includedVars>>
includedOthers == <<fetchVars, identVars, ledgerVars, payVars, taxVars, valueVars,
                    codeVars, configVars>>
codeOthers == <<fetchVars, identVars, ledgerVars, payVars, taxVars, valueVars,
                 configVars, includedVars>>

\* a page count that is taken to be large when the response has none
PageCountOrMany(m) == IF m = NoPageCount THEN MaxPageCount ELSE m

\* meta.get('page_count', 0)
MetaPageCount(m) == IF m = NoPageCount THEN 0 ELSE m

\* a stop test that trusts the page count alone
StopAtPageCount(p, m) == p >= MetaPageCount(m)

\* "if page >= meta.get('page_count', 0) or page > 20: break"
StopAfterPage(p, m) == p >= MetaPageCount(m) \/ p > PageCap

\* what the caller receives when the function returns: the list of batches
FetchReturn(res) == [batches |-> res]

\* entry of _fetch_from_parasut: results = [], page = 1
FetchStart ==
    /\ fPc = "idle"
    /\ \E impl \in Impls : fImpl' = impl
    /\ fPc' = "loop"
    /\ page' = 1
    /\ results' = <<>>
    /\ UNCHANGED <<requests, fLast, meta, fRet>>
    /\ UNCHANGED fetchOthers

\* the except branch: the settings class raises UserError, the connector logs and breaks
FetchOnError(impl) == IF impl = "settings" THEN "raised" ELSE "returned"

\* one iteration of "while True": the request fails (transport error or non-2xx)
FetchPageFails ==
    /\ fPc = "loop"
    /\ requests' = Append(requests, [number |-> page, size |-> PageSize])
    /\ fLast' = "fail"
    /\ fPc' = FetchOnError(fImpl)
    /\ fRet' = IF fPc' = "returned" THEN FetchReturn(results) ELSE fRet
    /\ UNCHANGED <<fImpl, page, results, meta>>
    /\ UNCHANGED fetchOthers

\* one iteration: the response has an empty (or no) data list
FetchPageEmpty ==
    /\ fPc = "loop"
    /\ requests' = Append(requests, [number |-> page, size |-> PageSize])
    /\ fLast' = "empty"
    /\ \E m \in PageCounts : meta' = m
    /\ fPc' = "returned"
    /\ fRet' = FetchReturn(results)
    /\ UNCHANGED <<fImpl, page, results>>
    /\ UNCHANGED fetchOthers

\* one iteration: the response has data; append the batch, then test the stop condition
FetchPageData ==
    /\ fPc = "loop"
    /\ requests' = Append(requests, [number |-> page, size |-> PageSize])
    /\ fLast' = "data"
    /\ results' = Append(results, page)
    /\ \E m \in PageCounts :
        /\ meta' = m
        /\ IF StopAfterPage(page, m)
           THEN /\ fPc' = "returned"
                /\ page' = page
                /\ fRet' = FetchReturn(results')
           ELSE /\ fPc' = "loop"
                /\ page' = page + 1
                /\ fRet' = fRet
    /\ UNCHANGED fImpl
    /\ UNCHANGED fetchOthers

FetchInit == FetchIdle /\ IdentIdle /\ LedgerIdle /\ PayIdle /\ HelpersIdle

FetchNext == FetchStart \/ FetchPageFails \/ FetchPageEmpty \/ FetchPageData

SpecFetch == FetchInit /\ [][FetchNext]_vars

FetchDone == fPc \in {"returned", "raised"}

\* the loop is a sequential program: while it has not left the loop, its next
\* iteration is run (each request returns or times out)
SpecFetchLive == FetchInit /\ [][FetchNext]_vars /\ WF_vars(FetchNext)

\* the pages 1..n in order
RECURSIVE UpTo(_)
UpTo(n) == IF n <= 0 THEN <<>> ELSE Append(UpTo(n - 1), n)

(***************************************************************************)
(* Claims about the fetch                                                  *)
(***************************************************************************)
\* C6: the fetch requests pages 1, 2, 3, ... consecutively with page size 25,
\* stops at the first empty page or when the page number reaches the reported
\* page count, and never requests more than 20 pages nor returns more than
\* 20 batches.
C6_FetchAtMostTwentyPages ==
    /\ \A i \in 1 .. Len(requests) :
          requests[i].number = i /\ requests[i].size = PageSize
    /\ Len(requests) <= PageCap
    /\ Len(results) <= PageCap
    /\ (fPc = "loop" /\ fLast = "data") =>
          (page = Len(requests) + 1 /\ Len(requests) < MetaPageCount(meta))

\* C7: when a page request fails after k pages were collected, the fetch
\* returns exactly those k batches, in page order, without raising.
C7_FailureReturnsCollected ==
    fLast = "fail" =>
        /\ fPc = "returned"
        /\ fRet.batches = UpTo(Len(requests) - 1)

\* C8: the fetch result carries a truncated flag that is true exactly when the
\* fetch ended because a page request failed.
C8_TruncatedFlag ==
    fPc = "returned" =>
        /\ "truncated" \in DOMAIN fRet
        /\ fRet.truncated = (fLast = "fail")

\* C37: the fetch terminates for every sequence of server responses, also when
\* every page has data and the reported page count is always larger than the
\* page number, and it never sends more than PageCap + 1 page requests.
C37_FetchTerminates ==
    /\ [](Len(requests) <= PageCap + 1)
    /\ <>FetchDone

\* every page had data and a page count beyond it, and the fetch has returned
C37_Witness ==
    /\ fPc = "returned"
    /\ fLast = "data"
    /\ meta > Len(requests)
    /\ Len(requests) = PageCap + 1

\* C38: when a page with data carries no page count in its metadata, the fetch
\* returns with that page's batch as the last one and requests no further
\* page; the batches returned are those of the pages that had data, so none
\* has an empty primary set.
C38_NoPageCountStops ==
    /\ (fLast = "data" /\ meta = NoPageCount) =>
          /\ fPc = "returned"
          /\ fRet.batches = UpTo(Len(requests))
    /\ fPc = "returned" =>
          fRet.batches = UpTo(IF fLast = "data" THEN Len(requests)
                              ELSE Len(requests) - 1)

\* the second page had data and no page count, and the fetch returned two batches
C38_Witness ==
    /\ fPc = "returned"
    /\ fLast = "data"
    /\ meta = NoPageCount
    /\ fRet.batches = <<1, 2>>

(***************************************************************************)
(* IdentityResolver: action_sync_accounts / _contacts / _products          *)
(***************************************************************************)
\* largest number of primary records in the external dataset
MaxRecs == 3
\* largest number of local entities that exist before the first run
MaxLocal == 1
\* largest number of runs of the orchestrator
MaxRuns == 2

IdentKinds == {"accounts", "contacts", "products"}
\* an absent (None or empty) attribute value: "if vals.get('vat')" is false for it
NoKey == "none"
\* tax numbers (contacts) and product codes (products)
Keys == {"k1", "k2"}
Names == {"A", "B"}
\* parasut_id of an entity that was never linked
NoId == 0
ExtIds == 1 .. MaxRecs

\* taxes_id of a product: no tax, the tax that the lookup on vat_rate finds, a
\* tax that a user set, the default of the product model
TaxUnset == "unset"
TaxOfRate == "of_rate"
TaxOfUser == "of_user"
TaxOfModel == "of_model"

\* an external record: item['id'], attrs.get('tax_number') or attrs.get('code'),
\* attrs.get('name'); accounts carry no natural key. tax is what the lookup on
\* attrs.get('vat_rate') yields: TaxUnset when the rate is absent or zero or no
\* tax is found for it
RecsWith(kind, tx) ==
    [id : ExtIds,
     key : IF kind = "accounts" THEN {NoKey} ELSE Keys \cup {NoKey},
     name : Names,
     tax : tx]
IdentRecs(kind) == RecsWith(kind, {TaxUnset})

\* a local entity that was created locally: no link to an external record
EntitiesWith(kind, tx) ==
    [pid : {NoId},
     key : IF kind = "accounts" THEN {NoKey} ELSE Keys \cup {NoKey},
     name : Names,
     tax : tx]
LocalEntities(kind) == EntitiesWith(kind, {TaxUnset})

\* one record per external id: the same id on two pages is the same record.
\* Ids, names and keys are interchangeable, so the datasets are taken up to
\* renaming: each is numbered in order of first appearance.
WellFormed(ds) ==
    /\ \A i, j \in DOMAIN ds : ds[i].id = ds[j].id => ds[i] = ds[j]
    /\ \A i \in DOMAIN ds :
          /\ ds[i].id <= 1 + SeqMax([k \in DOMAIN ds |-> ds[k].id], i - 1)
          /\ ds[i].name = "B" => \E k \in 1 .. i - 1 : ds[k].name = "A"
          /\ ds[i].key = "k2" => \E k \in 1 .. i - 1 : ds[k].key = "k1"

IdentDatasets(kind) ==
    {ds \in UNION {[1 .. n -> IdentRecs(kind)] : n \in 0 .. MaxRecs} : WellFormed(ds)}

IdentStores(kind) ==
    UNION {[1 .. n -> LocalEntities(kind)] : n \in 0 .. MaxLocal}

\* Model.search([('parasut_id', '=', p_id)])
ByExternalId(store, id) == {i \in DOMAIN store : store[i].pid = id}
\* Partner.search([('vat', '=', vals['vat'])]), Product.search([('default_code', '=', ...)])
ByNaturalKey(store, key) == {i \in DOMAIN store : store[i].key = key}
\* Model.search([('name', '=', name)])
ByName(store, name) == {i \in DOMAIN store : store[i].name = name}

\* the fallback searches each orchestrator makes after the search on parasut_id
HasKeyTier(kind) == kind \in {"contacts", "products"}
HasNameTier(kind) == kind \in {"accounts", "contacts"}

\* the chain of "if not x: x = search(...)": the first tier with a hit and its hits
\* (0 when no search finds anything)
NameBeforeKey(kind, store, rec) ==
    IF ByExternalId(store, rec.id) /= {}
    THEN [tier |-> 1, hits |-> ByExternalId(store, rec.id)]
    ELSE IF HasNameTier(kind) /\ ByName(store, rec.name) /= {}
    THEN [tier |-> 3, hits |-> ByName(store, rec.name)]
    ELSE IF HasKeyTier(kind) /\ rec.key /= NoKey /\ ByNaturalKey(store, rec.key) /= {}
    THEN [tier |-> 2, hits |-> ByNaturalKey(store, rec.key)]
    ELSE [tier |-> 0, hits |-> {}]
Resolve(kind, store, rec) ==
    IF ByExternalId(store, rec.id) /= {}
    THEN [tier |-> 1, hits |-> ByExternalId(store, rec.id)]
    ELSE IF HasKeyTier(kind) /\ rec.key /= NoKey /\ ByNaturalKey(store, rec.key) /= {}
    THEN [tier |-> 2, hits |-> ByNaturalKey(store, rec.key)]
    ELSE IF HasNameTier(kind) /\ ByName(store, rec.name) /= {}
    THEN [tier |-> 3, hits |-> ByName(store, rec.name)]
    ELSE [tier |-> 0, hits |-> {}]

\* vals: every mapped attribute is taken from the external record
ValsWithoutLink(kind, ent, rec) ==
    [pid |-> ent.pid,
     key |-> IF kind = "accounts" THEN ent.key ELSE rec.key,
     name |-> rec.name,
     tax |-> IF kind = "products" /\ rec.tax /= TaxUnset THEN rec.tax ELSE ent.tax]
\* "if tax: vals['taxes_id'] = [(6, 0, [tax.id])]": the key is set only when a
\* tax was found
Vals(kind, ent, rec) ==
    [pid |-> rec.id,
     key |-> IF kind = "accounts" THEN ent.key ELSE rec.key,
     name |-> rec.name,
     tax |-> IF kind = "products" /\ rec.tax /= TaxUnset THEN rec.tax ELSE ent.tax]

\* the field values of a record that create() fills in before vals are applied
Blank(kind, rec) ==
    [pid |-> NoId, key |-> NoKey, name |-> rec.name,
     tax |-> IF kind = "products" THEN TaxOfModel ELSE TaxUnset]

\* the entry of an orchestrator: batches = self._fetch_from_parasut(...). Every
\* page is fetched, or the request after n records (n < Len) fails: the connector
\* class then hands over the n records, the settings class raises.
IdentStartFull ==
    /\ iPc /= "run"
    /\ iRun < MaxRuns
    /\ iRun' = iRun + 1
    /\ iFull' = Append(iFull, TRUE)
    /\ iLen' = Len(iData)
    /\ iPc' = "run"
    /\ iPos' = 0 /\ iTier' = -1 /\ iLast' = 0 /\ created' = 0 /\ updated' = 0
    /\ iBefore' = Len(iStore)
    /\ UNCHANGED <<iKind, iData, iStore>>
    /\ UNCHANGED identOthers

IdentStartPartial ==
    /\ iPc /= "run"
    /\ iRun < MaxRuns
    /\ iRun' = iRun + 1
    /\ iFull' = Append(iFull, FALSE)
    /\ \E n \in 0 .. Len(iData) - 1 : iLen' = n
    /\ iPc' = "run"
    /\ iPos' = 0 /\ iTier' = -1 /\ iLast' = 0 /\ created' = 0 /\ updated' = 0
    /\ iBefore' = Len(iStore)
    /\ UNCHANGED <<iKind, iData, iStore>>
    /\ UNCHANGED identOthers

IdentStartRaises ==
    /\ iPc /= "run"
    /\ iRun < MaxRuns
    /\ Len(iData) > 0
    /\ iRun' = iRun + 1
    /\ iFull' = Append(iFull, FALSE)
    /\ iLen' = 0
    /\ iPc' = "raised"
    /\ iPos' = 0 /\ iTier' = -1 /\ iLast' = 0 /\ created' = 0 /\ updated' = 0
    /\ iBefore' = Len(iStore)
    /\ UNCHANGED <<iKind, iData, iStore>>
    /\ UNCHANGED identOthers

\* a counter that a record leaves as it was
NotCounted(n) == n

\* created += 1, updated += 1
Counted(n) == n + 1

\* the body of "for item in batch['data']": resolve, then write or create
IdentRecord ==
    /\ iPc = "run"
    /\ iPos < iLen
    /\ LET rec == iData[iPos + 1]
           r == Resolve(iKind, iStore, rec)
       IN  /\ iTier' = r.tier
           /\ IF r.tier /= 0
              THEN \E e \in r.hits :
                     /\ iStore' = [iStore EXCEPT ![e] = Vals(iKind, iStore[e], rec)]
                     /\ iLast' = e
                     /\ updated' = Counted(updated)
                     /\ created' = created
              ELSE /\ iStore' = Append(iStore, Vals(iKind, Blank(iKind, rec), rec))
                   /\ iLast' = Len(iStore) + 1
                   /\ created' = Counted(created)
                   /\ updated' = updated
    /\ iPos' = iPos + 1
    /\ UNCHANGED <<iKind, iData, iPc, iRun, iFull, iLen, iBefore>>
    /\ UNCHANGED identOthers

\* return self._return_notification(..., f"{created} created, {updated} updated.")
IdentFinish ==
    /\ iPc = "run"
    /\ iPos = iLen
    /\ iPc' = "done"
    /\ UNCHANGED <<iKind, iData, iStore, iRun, iFull, iLen, iPos, iTier, iLast,
                   created, updated, iBefore>>
    /\ UNCHANGED identOthers

IdentInit ==
    /\ FetchIdle
    /\ LedgerIdle
    /\ PayIdle
    /\ HelpersIdle
    /\ iKind \in IdentKinds
    /\ iData \in IdentDatasets(iKind)
    /\ iStore \in IdentStores(iKind)
    /\ iPc = "idle"
    /\ iRun = 0
    /\ iFull = <<>>
    /\ iLen = 0
    /\ iPos = 0
    /\ iTier = -1
    /\ iLast = 0
    /\ created = 0
    /\ updated = 0
    /\ iBefore = 0

IdentNext ==
    \/ IdentStartFull
    \/ IdentStartPartial
    \/ IdentStartRaises
    \/ IdentRecord
    \/ IdentFinish

SpecIdent == IdentInit /\ [][IdentNext]_vars

\* the same orchestrators over one or two records, where products exist locally
\* with or without taxes and the lookup on vat_rate finds a tax or none
OverwriteInit ==
    /\ FetchIdle
    /\ LedgerIdle
    /\ PayIdle
    /\ HelpersIdle
    /\ iKind \in IdentKinds
    /\ iData \in {ds \in [1 .. 1 -> RecsWith(iKind, {TaxUnset, TaxOfRate})]
                          \cup [1 .. 2 -> RecsWith(iKind, {TaxUnset, TaxOfRate})] :
                     WellFormed(ds)}
    /\ iStore \in [1 .. 1 -> EntitiesWith(iKind, {TaxUnset, TaxOfUser})]
    /\ iPc = "idle"
    /\ iRun = 0
    /\ iFull = <<>>
    /\ iLen = 0
    /\ iPos = 0
    /\ iTier = -1
    /\ iLast = 0
    /\ created = 0
    /\ updated = 0
    /\ iBefore = 0

SpecOverwrite == OverwriteInit /\ [][IdentNext]_vars

(***************************************************************************)
(* Claims about account / contact / product sync                           *)
(***************************************************************************)
\* the current run and the run before it both fetched every page
TwoFullRuns == iRun >= 2 /\ iFull[iRun - 1] /\ iFull[iRun]

\* C2: a second run in a row over the same unchanged dataset, every page fetch
\* succeeding in both runs, creates no local entity.
C2_SecondRunCreatesNothing == TwoFullRuns => created = 0

\* C4: on the second of two consecutive runs over an unchanged dataset every
\* record is matched by the tier-1 lookup on the stored external_id.
C4_SecondRunMatchesByExternalId == (TwoFullRuns /\ iPos > 0) => iTier = 1

\* the three tiers of a record as the claim describes them: the entities with the
\* record's external id, those with its natural key (contacts and products, when
\* the record carries one), those with its name (when the kind has a name tier)
TiersOf(store, kind, rec, nameTier) ==
    <<{i \in DOMAIN store : store[i].pid = rec.id},
      IF kind \in {"contacts", "products"} /\ rec.key /= NoKey
      THEN {i \in DOMAIN store : store[i].key = rec.key} ELSE {},
      IF nameTier THEN {i \in DOMAIN store : store[i].name = rec.name} ELSE {}>>

FirstHit(t) == IF t[1] /= {} THEN 1 ELSE IF t[2] /= {} THEN 2
               ELSE IF t[3] /= {} THEN 3 ELSE 0

\* the step that processes one record uses an entity of the earliest tier with a
\* hit, and creates one only when every tier is empty
StepFollowsTiers(t) ==
    LET w == FirstHit(t)
    IN  IF w = 0
        THEN /\ Len(iStore') = Len(iStore) + 1
             /\ iLast' = Len(iStore')
             /\ \A i \in DOMAIN iStore : iStore'[i] = iStore[i]
        ELSE /\ Len(iStore') = Len(iStore)
             /\ iLast' \in t[w]
             /\ \A i \in DOMAIN iStore : i /= iLast' => iStore'[i] = iStore[i]

C10_FallbackHitIsLinked ==
    (iPos > 0 /\ iTier \in {2, 3}) => iStore[iLast].pid = iData[iPos].id

\* an entity linked to another external record was matched by name and relinked
C10_Witness ==
    /\ iPos > 1
    /\ iTier = 3
    /\ iStore[iLast].pid = iData[iPos].id
    /\ \E k \in 1 .. iPos - 1 : iData[k].id /= iData[iPos].id /\ iData[k].name = iData[iPos].name

\* C34: when an existing account, contact or product is matched, every mapped
\* attribute of the local entity equals the value derived from the external
\* record after the update, also when the external value is absent: the
\* previous local value is never kept.
C34_UpdateOverwritesAll ==
    (iPos > 0 /\ iTier > 0) =>
        /\ iStore[iLast].pid = iData[iPos].id
        /\ iStore[iLast].name = iData[iPos].name
        /\ iKind /= "accounts" => iStore[iLast].key = iData[iPos].key
        /\ iKind = "products" => iStore[iLast].tax = iData[iPos].tax

MaxLedgerId == 2
\* largest external id of a contact
MaxContactId == 2
\* largest number of records that the runs go through, all runs together
MaxLedgerRecs == 2
\* the largest number of detail relationships of an invoice or a bill
MaxDetails == 1

LedgerKinds == {"sales", "bills", "salaries", "taxes"}
LedgerIds == 1 .. MaxLedgerId
ContactIds == 1 .. MaxContactId
\* relationships.contact.data (supplier.data) is null
NoContact == 0
\* the record has no contact (supplier) relationship at all
NoRelation == -1
\* item['relationships']['supplier']['data'] raised KeyError
KeyErrorRaised == -1
\* an absent or empty name attribute
NoName == "none"
ContactNames == {"A"}
\* names of employees and tax payments, free text of the external system: the
\* ones that hold the marker of a reference tag (NoName stands for the others)
Texts == {"MAAS-A", "VERGI-A"}
\* the substring test on those texts
Contains(text, marker) ==
    <<text, marker>> \in {<<"MAAS-A", "MAAS-">>, <<"VERGI-A", "VERGI-">>}

\* attr_node.get('name') or 'Parasut Musteri'
DefaultCustomer == "Parasut Musteri"
\* employee_name = "Calisan"
DefaultEmployee == "Calisan"
\* attrs.get('name') or "Vergi Odemesi"
DefaultTax == "Vergi Odemesi"
\* partner_name = "Vergi Dairesi / SGK"
TaxOffice == "Vergi Dairesi / SGK"

\* a sales invoice or purchase bill of a page: its id, the id of its contact
\* (supplier) relationship, whether the page's included set holds that contact,
\* the name of the included node, the number of its detail relationships and
\* the number of those that the page's included set holds
InvoiceRecs(kind) ==
    {r \in [kind : {kind}, id : LedgerIds,
            contact : ContactIds \cup {NoContact, NoRelation},
            included : BOOLEAN, cname : ContactNames \cup {NoName},
            details : 0 .. MaxDetails, found : 0 .. MaxDetails] :
        /\ r.contact \in {NoContact, NoRelation} => ~r.included
        /\ ~r.included => r.cname = NoName
        /\ r.found <= r.details}

\* a salary or tax record: its id, the name it yields (for a salary the name of
\* the employee found locally or in the included set, NoName when there is
\* none) and its amount (net_total or amount or total_paid or 0.0)
JournalRecs(kind) ==
    [kind : {kind}, id : LedgerIds, name : Texts \cup {NoName}, amount : {0, 1}]

LedgerRecs(kind) ==
    IF kind \in {"sales", "bills"} THEN InvoiceRecs(kind) ELSE JournalRecs(kind)

\* the external ids that the first k rows of a partner list carry
LinkedIds(ps, k) == {ps[i].pid : i \in 1 .. k} \ {NoId}

\* the records a page can hold next: external ids are opaque to the code, which
\* only compares them, so a record carries the id of an entry or the first id
\* that no entry has, and the id of a partner's contact or the first id that
\* no partner has
PageRecs(kind, ms, ps) ==
    {r \in LedgerRecs(kind) :
        /\ r.id <= Cardinality({ms[i].pid : i \in DOMAIN ms}) + 1
        /\ kind \in {"sales", "bills"} =>
              r.contact <= Cardinality(LinkedIds(ps, Len(ps))) + 1}

\* the partners that exist before the first run: created locally or by contact
\* sync, their external ids numbered in the order of the rows
LedgerPartners ==
    {ps \in UNION {[1 .. n -> [pid : ContactIds \cup {NoId}, name : ContactNames]] :
                     n \in 0 .. MaxLocal} :
        \A i \in DOMAIN ps : ps[i].pid <= Cardinality(LinkedIds(ps, i - 1)) + 1}

\* 'move_type' of move_vals
MoveType(kind) ==
    CASE kind = "sales" -> "out_invoice"
      [] kind = "bills" -> "in_invoice"
      [] OTHER -> "entry"

\* one prefix for every kind: what 'ref' would begin with if the orchestrators
\* did not tell their kinds apart
SalesPrefix(kind) == "SLS-"

\* the prefix of 'ref' in move_vals
RefPrefix(kind) ==
    CASE kind = "sales" -> "SLS-"
      [] kind = "bills" -> "PRS-"
      [] kind = "salaries" -> "MAAS-"
      [] OTHER -> "VERGI-"

\* 'ref': f"SLS-{p_id}", f"PRS-{p_id}", f"MAAS-{p_id} ({employee_name})",
\* f"VERGI-{p_id} ({tax_name})", kept as its parts
Ref(kind, id, text) == [prefix |-> RefPrefix(kind), id |-> id, suffix |-> text]

\* the name in the ref of a salary or tax entry
JournalName(rec) ==
    IF rec.name /= NoName THEN rec.name
    ELSE IF rec.kind = "salaries" THEN DefaultEmployee ELSE DefaultTax

\* ('ref', 'like', 'MAAS-%'): the ORM wraps the value of like in %...%, so the
\* test is that the ref contains the marker somewhere
RefLike(ref, marker) ==
    ref.prefix = marker \/ (ref.suffix /= NoName /\ Contains(ref.suffix, marker))

\* move.ref.startswith(marker)
RefStartsWith(ref, marker) == ref.prefix = marker

\* "Check exist": the search each orchestrator makes before it creates an entry
ExistingMoveOtherType(ms, kind, id) ==
    IF kind \in {"sales", "bills"}
    THEN {i \in DOMAIN ms : ms[i].pid = id /\ ms[i].move_type = MoveType("bills")}
    ELSE {i \in DOMAIN ms : ms[i].pid = id /\ RefLike(ms[i].ref, RefPrefix("taxes"))}
ExistingMove(ms, kind, id) ==
    IF kind \in {"sales", "bills"}
    THEN {i \in DOMAIN ms : ms[i].pid = id /\ ms[i].move_type = MoveType(kind)}
    ELSE {i \in DOMAIN ms : ms[i].pid = id /\ RefLike(ms[i].ref, RefPrefix(kind))}

\* the command (0, 0, line_vals) for a detail that was found in the included
\* set: description, quantity and price of the detail (the price is the subject
\* of PriceUnit)
DetailLine ==
    [command |-> "create", name |-> "detail", quantity |-> "detail",
     price_unit |-> "detail"]

\* the fallback line: (0, 0, {'name': attrs.get('description', ...),
\* 'quantity': 1, 'price_unit': float(attrs.get('net_total', 0))})
FallbackLine ==
    [command |-> "create", name |-> "header", quantity |-> "one",
     price_unit |-> "header"]

\* (5, 0, 0): the command that removes every line the entry has
ClearLines ==
    [command |-> "clear", name |-> "none", quantity |-> "none", price_unit |-> "none"]

\* a debit or credit line of a salary or tax entry
JournalLine(side) ==
    [command |-> "create", name |-> "header", quantity |-> "none", price_unit |-> side]

\* invoice_lines without the fallback: one line per detail found
DetailLinesOnly(rec) == [k \in 1 .. rec.found |-> DetailLine]

\* "Prepare Lines": invoice_lines after the loop over details_rels and the
\* fallback
InvoiceLines(rec) ==
    IF DetailLinesOnly(rec) = <<>> THEN <<FallbackLine>> ELSE DetailLinesOnly(rec)

\* move_vals, after action_post: the columns that the sync reads back
PostedMove(rec) ==
    [move_type |-> MoveType(rec.kind),
     pid |-> rec.id,
     ref |-> Ref(rec.kind, rec.id,
                 IF rec.kind \in {"sales", "bills"} THEN NoName ELSE JournalName(rec)),
     state |-> "posted"]

\* a search on parasut_id that finds nothing
NoPartnerById(ps, id) == {}
\* Partner.search([('parasut_id', '=', contact_id)], limit=1)
PartnerById(ps, id) == {i \in DOMAIN ps : ps[i].pid = id}
PartnerByName(ps, name) == {i \in DOMAIN ps : ps[i].name = name}

\* "Resolve Partner (Customer)" of the settings class: by parasut_id, then by the
\* name of the included contact (linking the partner), then create from the
\* included contact. The outcomes: the partner table after it and the partner
\* (0: none).
ResolveCustomer(ps, rec) ==
    IF rec.contact \in {NoContact, NoRelation}
    THEN {[ps |-> ps, partner |-> 0]}
    ELSE IF PartnerById(ps, rec.contact) /= {}
    THEN {[ps |-> ps, partner |-> i] : i \in PartnerById(ps, rec.contact)}
    ELSE IF rec.included /\ rec.cname /= NoName /\ PartnerByName(ps, rec.cname) /= {}
    THEN {[ps |-> [ps EXCEPT ![i].pid = rec.contact], partner |-> i] :
             i \in PartnerByName(ps, rec.cname)}
    ELSE IF rec.included
    THEN {[ps |-> Append(ps, [pid |-> rec.contact,
                              name |-> IF rec.cname = NoName THEN DefaultCustomer
                                       ELSE rec.cname]),
           partner |-> Len(ps) + 1]}
    ELSE {[ps |-> ps, partner |-> 0]}

\* "Resolve Partner" of purchase bills, settings class: by parasut_id, then
\* create from the included contact. The second step reads
\* item['relationships']['supplier']['data'] without a default.
ResolveSupplier(ps, rec) ==
    IF rec.contact = NoRelation
    THEN {[ps |-> ps, partner |-> KeyErrorRaised]}
    ELSE IF rec.contact /= NoContact /\ PartnerById(ps, rec.contact) /= {}
    THEN {[ps |-> ps, partner |-> i] : i \in PartnerById(ps, rec.contact)}
    ELSE IF rec.contact /= NoContact /\ rec.included
    THEN {[ps |-> Append(ps, [pid |-> rec.contact, name |-> rec.cname]),
           partner |-> Len(ps) + 1]}
    ELSE {[ps |-> ps, partner |-> 0]}

\* the connector class: by parasut_id only
ResolveLinked(ps, rec) ==
    IF rec.contact \notin {NoContact, NoRelation} /\ PartnerById(ps, rec.contact) /= {}
    THEN {[ps |-> ps, partner |-> i] : i \in PartnerById(ps, rec.contact)}
    ELSE {[ps |-> ps, partner |-> 0]}

ResolveParty(impl, ps, rec) ==
    IF impl = "connector" THEN ResolveLinked(ps, rec)
    ELSE IF rec.kind = "sales" THEN ResolveCustomer(ps, rec)
    ELSE ResolveSupplier(ps, rec)

\* the _logger.warning or _logger.error call on the way of a record that is
\* passed over, with the id that its message carries
SkipLog(impl, kind, outcome, id) ==
    IF impl = "settings" /\ kind = "sales" /\ outcome = "skipped_partner"
    THEN [level |-> "warning", id |-> id]
    ELSE IF outcome = "skipped_amount" THEN [level |-> "warning", id |-> id]
    ELSE IF outcome = "skipped_accounts" THEN [level |-> "error", id |-> id]
    ELSE NoLog

\* partner = search([('name', '=', name)], limit=1) or create({'name': name, ...})
FindOrCreateByName(ps, name) ==
    IF PartnerByName(ps, name) /= {} THEN ps
    ELSE Append(ps, [pid |-> NoId, name |-> name])

\* the entry of an orchestrator; the salary and tax orchestrators return at once
\* when there is no general journal
LedgerStart ==
    /\ lPc /= "run"
    /\ lSeen < MaxLedgerRecs
    /\ \E kind \in LedgerKinds, impl \in Impls :
         /\ kind \in {"salaries", "taxes"} => impl = "settings"
         /\ lKind' = kind
         /\ lImpl' = impl
         /\ lPc' = IF kind \in {"salaries", "taxes"} /\ lChart = "no_journal"
                   THEN "done" ELSE "run"
    /\ processed' = 0
    /\ lRec' = NoRec
    /\ lOutcome' = "none"
    /\ lOps' = <<>>
    /\ lLines' = <<>>
    /\ lLog' = NoLog
    /\ UNCHANGED <<lChart, partners, moves, lSeen>>
    /\ UNCHANGED ledgerOthers

\* the loop body of action_sync_sales_invoices / action_sync_purchase_bills for
\* one record. The KeyError of ResolveSupplier leaves the loop and the method;
\* what the caller then does with the transaction is not in these classes.
LedgerInvoice ==
    /\ lPc = "run"
    /\ lKind \in {"sales", "bills"}
    /\ lSeen < MaxLedgerRecs
    /\ lSeen' = lSeen + 1
    /\ \E rec \in PageRecs(lKind, moves, partners) :
         LET existing == ExistingMove(moves, rec.kind, rec.id)
         IN  /\ lRec' = rec
             /\ IF lImpl = "connector" /\ existing /= {}
                THEN /\ lOutcome' = "skipped_existing"
                     /\ lOps' = <<>>
                     /\ lLines' = <<>>
                     /\ UNCHANGED <<partners, moves, processed>>
                ELSE \E party \in ResolveParty(lImpl, partners, rec) :
                       /\ partners' = party.ps
                       /\ IF party.partner = KeyErrorRaised
                          THEN /\ lOutcome' = "raised"
                               /\ lOps' = <<>>
                               /\ lLines' = <<>>
                               /\ UNCHANGED <<moves, processed>>
                          ELSE IF party.partner = 0
                          THEN /\ lOutcome' = "skipped_partner"
                               /\ lOps' = <<>>
                               /\ lLines' = <<>>
                               /\ UNCHANGED <<moves, processed>>
                          ELSE IF existing /= {}
                          THEN \E e \in existing :
                                 /\ lOutcome' = "updated"
                                 /\ lOps' = (IF moves[e].state = "posted"
                                             THEN <<"button_draft">> ELSE <<>>)
                                            \o <<"write", "action_post">>
                                 /\ lLines' = <<ClearLines>> \o InvoiceLines(rec)
                                 /\ moves' = [moves EXCEPT ![e] = PostedMove(rec)]
                                 /\ processed' = processed + 1
                          ELSE /\ lOutcome' = "created"
                               /\ lOps' = <<"create", "action_post">>
                               /\ lLines' = InvoiceLines(rec)
                               /\ moves' = Append(moves, PostedMove(rec))
                               /\ processed' = processed + 1
             /\ lLog' = SkipLog(lImpl, rec.kind, lOutcome', rec.id)
    /\ lPc' = IF lOutcome' = "raised" THEN "failed" ELSE lPc
    /\ UNCHANGED <<lImpl, lKind, lChart>>
    /\ UNCHANGED ledgerOthers

\* the loop body of action_sync_salaries / action_sync_taxes for one record
LedgerJournal ==
    /\ lPc = "run"
    /\ lKind \in {"salaries", "taxes"}
    /\ lSeen < MaxLedgerRecs
    /\ lSeen' = lSeen + 1
    /\ \E rec \in PageRecs(lKind, moves, partners) :
         LET existing == ExistingMove(moves, rec.kind, rec.id)
             party == IF rec.kind = "salaries" THEN JournalName(rec) ELSE TaxOffice
         IN  /\ lRec' = rec
             /\ IF existing /= {}
                THEN /\ lOutcome' = "skipped_existing"
                     /\ UNCHANGED <<partners, moves, processed>>
                ELSE IF rec.amount <= 0
                THEN /\ lOutcome' = "skipped_amount"
                     /\ partners' = IF rec.kind = "salaries"
                                    THEN FindOrCreateByName(partners, party)
                                    ELSE partners
                     /\ UNCHANGED <<moves, processed>>
                ELSE IF lChart = "no_accounts"
                THEN /\ lOutcome' = "skipped_accounts"
                     /\ partners' = FindOrCreateByName(partners, party)
                     /\ UNCHANGED <<moves, processed>>
                ELSE /\ lOutcome' = "created"
                     /\ partners' = FindOrCreateByName(partners, party)
                     /\ moves' = Append(moves, PostedMove(rec))
                     /\ processed' = processed + 1
             /\ lOps' = IF lOutcome' = "created" THEN <<"create", "action_post">>
                        ELSE <<>>
             /\ lLines' = IF lOutcome' = "created"
                          THEN <<JournalLine("debit"), JournalLine("credit")>>
                          ELSE <<>>
             /\ lLog' = SkipLog(lImpl, rec.kind, lOutcome', rec.id)
    /\ UNCHANGED <<lImpl, lKind, lPc, lChart>>
    /\ UNCHANGED ledgerOthers

\* return self._return_notification(..., f"{processed} ...")
LedgerFinish ==
    /\ lPc = "run"
    /\ lPc' = "done"
    /\ lRec' = NoRec
    /\ lOutcome' = "none"
    /\ lOps' = <<>>
    /\ lLines' = <<>>
    /\ lLog' = NoLog
    /\ UNCHANGED <<lImpl, lKind, lChart, partners, moves, processed, lSeen>>
    /\ UNCHANGED ledgerOthers

LedgerInit ==
    /\ FetchIdle
    /\ IdentIdle
    /\ PayIdle
    /\ HelpersIdle
    /\ lImpl = "settings"
    /\ lKind = "sales"
    /\ lPc = "idle"
    /\ lChart \in {"ok", "no_journal", "no_accounts"}
    /\ partners \in LedgerPartners
    /\ moves = <<>>
    /\ processed = 0
    /\ lSeen = 0
    /\ lRec = NoRec
    /\ lOutcome = "none"
    /\ lOps = <<>>
    /\ lLines = <<>>
    /\ lLog = NoLog

LedgerNext == LedgerStart \/ LedgerInvoice \/ LedgerJournal \/ LedgerFinish

SpecLedger == LedgerInit /\ [][LedgerNext]_vars

\* runs of the account, contact and product sync on their table, or runs of the
\* invoice, bill, salary and tax sync on the partners and the entries, with a
\* chart of accounts that lets every kind of entry be written
LinksInit ==
    \/ IdentInit /\ Len(iData) < MaxRecs
    \/ LedgerInit /\ lChart = "ok"

LinksNext ==
    \/ LedgerIdle /\ IdentNext
    \/ IdentIdle /\ LedgerNext

SpecLinks == LinksInit /\ [][LinksNext]_vars

(***************************************************************************)
(* Claims about the ledger entries                                         *)
(***************************************************************************)
\* no two rows of a table carry the same external id
UniqueIds(t) ==
    \A i, j \in DOMAIN t : (i /= j /\ t[i].pid /= NoId) => t[i].pid /= t[j].pid

\* no two invoices and no two bills carry the same external id
UniqueEntries(ms) ==
    \A i, j \in DOMAIN ms :
        (i /= j /\ ms[i].move_type \in {"out_invoice", "in_invoice"}
                /\ ms[i].move_type = ms[j].move_type) => ms[i].pid /= ms[j].pid

EntryKind(m) ==
    CASE m.move_type = "out_invoice" -> "sales"
      [] m.move_type = "in_invoice" -> "bills"
      [] m.move_type = "entry" /\ m.ref.prefix = "MAAS-" -> "salaries"
      [] OTHER -> "taxes"

EntriesOf(kind, id) ==
    {i \in DOMAIN moves : moves[i].pid = id /\ EntryKind(moves[i]) = kind}

\* C1: the ledger holds at most one entry per (external id, entry kind) pair.
C1_OneEntryPerIdAndKind ==
    \A id \in LedgerIds, kind \in LedgerKinds : Cardinality(EntriesOf(kind, id)) <= 1

\* a record whose id and kind already have an entry went through the sync
C1_Witness ==
    /\ lOutcome \in {"updated", "skipped_existing"}
    /\ Cardinality(EntriesOf(lRec.kind, lRec.id)) = 1

\* the lines an entry has after the write of the last step: a create command
\* adds a line, a clear command removes the lines before it
RECURSIVE LinesAfter(_, _)
LinesAfter(old, cmds) ==
    IF cmds = <<>> THEN old
    ELSE LinesAfter(IF Head(cmds).command = "clear" THEN <<>>
                    ELSE Append(old, Head(cmds)), Tail(cmds))

\* the lines that an entry can have before it is rewritten
OldLines == {<<>>, <<DetailLine>>, <<FallbackLine>>}

\* C19: every entry that sales-invoice or purchase-bill sync creates or rewrites
\* has at least one line, and when the record has no detail relationship or none
\* of them is found in the included set, the entry has exactly one line, with
\* quantity 1 and the description and amount of the header.
C19_AtLeastOneLine ==
    (lOutcome \in {"created", "updated"} /\ lRec.kind \in {"sales", "bills"}) =>
        \A old \in (IF lOutcome = "created" THEN {<<>>} ELSE OldLines) :
            LET lines == LinesAfter(old, lLines)
            IN  /\ Len(lines) >= 1
                /\ lRec.found = 0 =>
                      /\ Len(lines) = 1
                      /\ lines[1].quantity = "one"
                      /\ lines[1].name = "header"
                      /\ lines[1].price_unit = "header"

\* an entry was rewritten from a record whose details are not in the included set
C19_Witness ==
    /\ lOutcome = "updated"
    /\ lRec.details > 0
    /\ lRec.found = 0
    /\ LinesAfter(<<DetailLine>>, lLines) = <<FallbackLine>>

\* C5: an entry of one kind never suppresses the creation of an entry of another
\* kind with the same external id: a record that is not skipped for a reason of
\* its own (no counterparty, no amount, no accounts) has an entry of its kind.
C5_OtherKindNeverSuppresses ==
    lOutcome \in {"created", "updated", "skipped_existing"} =>
        EntriesOf(lRec.kind, lRec.id) /= {}

\* C21: when a sales-invoice or purchase-bill record meets an entry of its id
\* and kind that is posted, the sync reverts the entry to draft, writes the new
\* lines in place of all the old ones and posts it, in that order.
C21_RewriteThroughDraft ==
    (lRec.kind \in {"sales", "bills"}
     /\ lOutcome \in {"updated", "skipped_existing"}) =>
        /\ lOps = <<"button_draft", "write", "action_post">>
        /\ lLines /= <<>>
        /\ Head(lLines) = ClearLines
        /\ \A old \in OldLines : LinesAfter(old, lLines) = Tail(lLines)

\* C23 as stated: the reference tag of every entry is exactly the prefix of its
\* kind followed by the external id, with nothing after it.
C23_TagIsPrefixAndId ==
    \A i \in DOMAIN moves :
        /\ moves[i].ref.id = moves[i].pid
        /\ moves[i].ref.suffix = NoName

\* the prefix that the specification gives each kind of entry
TagPrefix ==
    [sales |-> "SLS-", bills |-> "PRS-", salaries |-> "MAAS-", taxes |-> "VERGI-"]

\* C23: the reference tag of every entry begins with the prefix of its kind
\* (SLS-, PRS-, MAAS-, VERGI-) followed by the external id; the tag of a sales
\* or bill entry ends there, the tag of a salary or tax entry goes on with the
\* name of the employee or tax payment in brackets.
C23_TagBeginsWithPrefixAndId ==
    /\ \A i \in DOMAIN moves :
          /\ moves[i].ref.id = moves[i].pid
          /\ moves[i].move_type = "out_invoice" =>
                moves[i].ref.prefix = "SLS-" /\ moves[i].ref.suffix = NoName
          /\ moves[i].move_type = "in_invoice" =>
                moves[i].ref.prefix = "PRS-" /\ moves[i].ref.suffix = NoName
          /\ moves[i].move_type = "entry" =>
                /\ moves[i].ref.prefix \in {"MAAS-", "VERGI-"}
                /\ moves[i].ref.suffix /= NoName
    /\ lOutcome = "created" =>
          /\ moves[Len(moves)].ref.prefix = TagPrefix[lRec.kind]
          /\ moves[Len(moves)].ref.id = lRec.id

\* a salary entry was created whose tag carries the name of the employee
C23_Witness ==
    /\ lOutcome = "created"
    /\ lRec.kind = "salaries"
    /\ lRec.name /= NoName
    /\ moves[Len(moves)].ref =
          [prefix |-> "MAAS-", id |-> lRec.id, suffix |-> lRec.name]

\* C25: a sales-invoice or purchase-bill record without a contact (supplier)
\* relationship, or with an empty one, is passed over: no entry is created or
\* changed, the record is not counted, and the run goes on.
C25_UnresolvedIsSkipped ==
    (lRec.kind \in {"sales", "bills"}
     /\ lRec.contact \in {NoContact, NoRelation}
     /\ lOutcome /= "skipped_existing") =>
        /\ lOutcome = "skipped_partner"
        /\ lOps = <<>>
        /\ lPc = "run"

\* the outcomes of a record that got no entry written
SkipOutcomes == {"skipped_partner", "skipped_amount", "skipped_accounts"}

\* C27: every record that is passed over or failed on leaves a warning or an
\* error in the log that names its external id.
C27_SkipIsLogged ==
    lOutcome \in SkipOutcomes =>
        /\ lLog.level \in {"warning", "error"}
        /\ lLog.id = lRec.id

(***************************************************************************)
(* Payment sync: action_sync_payments, action_sync_sales_payments          *)
(***************************************************************************)
\* the amount due of every entry before its first payment
MaxAmount == 2
\* the largest number of posted entries
MaxEntries == 2
\* the largest number of payments that the external records carry together
MaxPays == 2
\* no run starts once the runs have issued this many detail requests
MaxPayRequests == 2

PayOps == {"payments", "sales_payments"}

Amounts == 1 .. MaxAmount

\* the posted entries that the sync of the four kinds can have left: entry i
\* carries external id i, and nothing is paid yet (the name in the ref of a
\* salary or tax entry plays no part in payment sync: the default one stands
\* for all)
PostedEntries(i) ==
    {[move |-> PostedMove(r), residual |-> MaxAmount, payment_state |-> "not_paid"] :
        r \in {x \in UNION {LedgerRecs(k) : k \in LedgerKinds} :
                  /\ x.id = i
                  /\ x.kind \in {"salaries", "taxes"} => x.name = NoName}}

\* the posted entries with every name that the ref of a salary or tax entry
\* can carry
TaggedEntries(i) ==
    {[move |-> PostedMove(r), residual |-> MaxAmount, payment_state |-> "not_paid"] :
        r \in {x \in UNION {LedgerRecs(k) : k \in LedgerKinds} : x.id = i}}

\* the endpoint that the sync of each kind fetches its records from
IngestEndpoint ==
    [sales |-> "sales_invoices", bills |-> "purchase_bills",
     salaries |-> "salaries", taxes |-> "taxes"]

\* the payments relationship of an external record with its included payment
\* nodes, in order
PaymentLists == UNION {[1 .. n -> Amounts] : n \in 0 .. MaxPays}

PaymentOf(list, k) == [id |-> k, amount |-> list[k]]

RECURSIVE SumLen(_, _)
SumLen(f, n) == IF n = 0 THEN 0 ELSE Len(f[n]) + SumLen(f, n - 1)

\* a set of entry numbers as the list the search returns (ordered by id)
InOrder(S) ==
    [k \in 1 .. Cardinality(S) |-> CHOOSE i \in S : Cardinality({j \in S : j < i}) = k - 1]

\* the domain of the search for open entries
OpenEntries(op, ps) ==
    {i \in DOMAIN ps :
        /\ ps[i].move.state = "posted"
        /\ IF op = "payments"
           THEN /\ ps[i].move.move_type \in {"in_invoice", "entry"}
                /\ ps[i].payment_state \in {"not_paid", "partial"}
           ELSE /\ ps[i].move.move_type = "out_invoice"
                /\ ps[i].payment_state /= "paid"}

\* the endpoint that a tag would select if the marker were looked for anywhere
\* in it, as the 'like' searches of salary and tax sync do
EndpointByLike(op, ref) ==
    IF op = "sales_payments" THEN "sales_invoices"
    ELSE IF RefLike(ref, "MAAS-") THEN "salaries"
    ELSE IF RefLike(ref, "VERGI-") THEN "taxes"
    ELSE "purchase_bills"

\* "Determine Endpoint"
Endpoint(op, ref) ==
    IF op = "sales_payments" THEN "sales_invoices"
    ELSE IF RefStartsWith(ref, "MAAS-") THEN "salaries"
    ELSE IF RefStartsWith(ref, "VERGI-") THEN "taxes"
    ELSE "purchase_bills"

\* the responses a detail request can get
Responses ==
    {[status |-> 200, body |-> "json"], [status |-> 200, body |-> "malformed"],
     [status |-> 429, body |-> "none"], [status |-> 500, body |-> "none"]}

\* time.sleep(0.5) opens each round of the loop of the settings class
LoopHead(impl) == IF impl = "settings" THEN "sleep" ELSE "request"

Delay == [ev |-> "sleep", endpoint |-> "none", id |-> 0]
Request(endpoint, id) == [ev |-> "request", endpoint |-> endpoint, id |-> id]

\* register.action_create_payments(): the payment is reconciled with the entry
Reconciled(entry, amount) ==
    LET rest == IF entry.residual > amount THEN entry.residual - amount ELSE 0
    IN  [entry EXCEPT !.residual = rest,
                      !.payment_state = IF rest = 0 THEN "paid" ELSE "partial"]

\* the loop goes to the next open entry, or the run ends with its notification
NextEntry(count) ==
    /\ pCount' = count
    /\ pPay' = 0
    /\ IF pIdx = Len(payQueue)
       THEN /\ pPc' = "done"
            /\ pResult' = [kind |-> "checked", processed |-> count]
            /\ pIdx' = pIdx
       ELSE /\ pPc' = LoopHead(pImpl)
            /\ pResult' = pResult
            /\ pIdx' = pIdx + 1

PayStart ==
    /\ pPc \in {"idle", "done"}
    /\ pReqs < MaxPayRequests
    /\ \E impl \in Impls, op \in PayOps :
         /\ impl = "connector" => op = "payments"
         /\ LET open == InOrder(OpenEntries(op, payables))
            IN  /\ pImpl' = impl
                /\ pOp' = op
                /\ payQueue' = open
                /\ IF open = <<>>
                   THEN /\ pPc' = "done"
                        /\ pResult' = [kind |-> "nothing_open", processed |-> 0]
                        /\ pIdx' = 0
                   ELSE /\ pPc' = LoopHead(impl)
                        /\ pResult' = NoResult
                        /\ pIdx' = 1
    /\ pCount' = 0
    /\ pPay' = 0
    /\ pLog' = <<>>
    /\ pLimited' = FALSE
    /\ UNCHANGED <<payables, ext, registered, pReqs>>
    /\ UNCHANGED payOthers

PaySleep ==
    /\ pPc = "sleep"
    /\ pLog' = Append(pLog, Delay)
    /\ pPc' = "request"
    /\ UNCHANGED <<pImpl, pOp, payables, ext, payQueue, pIdx, pPay, registered,
                   pCount, pResult, pReqs, pLimited>>
    /\ UNCHANGED payOthers

PayRequest ==
    /\ pPc = "request"
    /\ LET move == payables[payQueue[pIdx]].move
       IN  pLog' = Append(pLog, Request(Endpoint(pOp, move.ref), move.pid))
    /\ pReqs' = pReqs + 1
    /\ pPc' = "respond"
    /\ UNCHANGED <<pImpl, pOp, payables, ext, payQueue, pIdx, pPay, registered,
                   pCount, pResult, pLimited>>
    /\ UNCHANGED payOthers

PayRespond ==
    /\ pPc = "respond"
    /\ \E response \in Responses :
         /\ pLimited' = (pLimited \/ response.status = 429)
         /\ IF response.status = 429 /\ pImpl = "settings"
            THEN /\ pPc' = "done"
                 /\ pResult' = [kind |-> "rate_limit", processed |-> pCount]
                 /\ UNCHANGED <<pIdx, pPay, pCount>>
            ELSE IF response.status /= 200
            THEN NextEntry(pCount)
            ELSE IF response.body = "malformed"
            THEN NextEntry(pCount + 1)
            ELSE IF ext[payQueue[pIdx]] = <<>>
            THEN NextEntry(pCount)
            ELSE /\ pPc' = "register"
                 /\ pPay' = 1
                 /\ UNCHANGED <<pIdx, pCount, pResult>>
    /\ UNCHANGED <<pImpl, pOp, payables, ext, payQueue, registered, pLog, pReqs>>
    /\ UNCHANGED payOthers

PayRegister ==
    /\ pPc = "register"
    /\ LET e == payQueue[pIdx]
           pay == PaymentOf(ext[e], pPay)
           NextPayment ==
               IF pPay < Len(ext[e])
               THEN /\ pPay' = pPay + 1
                    /\ UNCHANGED <<pPc, pIdx, pCount, pResult>>
               ELSE NextEntry(pCount + 1)
       IN  \E via \in {"account", "transaction", "none"}, journal \in BOOLEAN,
              accepted \in BOOLEAN :
             /\ pLog' = IF pImpl = "settings" /\ pOp = "payments" /\ via = "transaction"
                        THEN Append(pLog, Request("transactions", pay.id))
                        ELSE pLog
             /\ IF ~journal
                THEN /\ NextPayment
                     /\ UNCHANGED <<payables, registered>>
                ELSE IF accepted /\ payables[e].residual > 0
                THEN /\ registered' = Append(registered,
                            [entry |-> e, pay |-> pay.id, amount |-> pay.amount])
                     /\ payables' = [payables EXCEPT ![e] = Reconciled(@, pay.amount)]
                     /\ NextPayment
                ELSE /\ UNCHANGED <<payables, registered>>
                     /\ IF pImpl = "settings"
                        THEN NextPayment
                        ELSE NextEntry(pCount + 1)
    /\ UNCHANGED <<pImpl, pOp, ext, payQueue, pReqs, pLimited>>
    /\ UNCHANGED payOthers

PayInit ==
    /\ FetchIdle
    /\ IdentIdle
    /\ LedgerIdle
    /\ HelpersIdle
    /\ pImpl = "settings"
    /\ pOp = "payments"
    /\ pPc = "idle"
    /\ \E n \in 1 .. MaxEntries :
         /\ payables \in [1 .. n -> UNION {PostedEntries(i) : i \in 1 .. n}]
         /\ \A i \in 1 .. n : payables[i] \in PostedEntries(i)
         /\ ext \in [1 .. n -> PaymentLists]
         /\ SumLen(ext, n) <= MaxPays
    /\ payQueue = <<>>
    /\ pIdx = 0
    /\ pPay = 0
    /\ registered = <<>>
    /\ pCount = 0
    /\ pResult = NoResult
    /\ pLog = <<>>
    /\ pReqs = 0
    /\ pLimited = FALSE

PayNext == PayStart \/ PaySleep \/ PayRequest \/ PayRespond \/ PayRegister

SpecPay == PayInit /\ [][PayNext]_vars

\* payment sync over one posted entry of any kind and any name
EndpointInit ==
    /\ FetchIdle
    /\ IdentIdle
    /\ LedgerIdle
    /\ HelpersIdle
    /\ pImpl = "settings"
    /\ pOp = "payments"
    /\ pPc = "idle"
    /\ payables \in [1 .. 1 -> TaggedEntries(1)]
    /\ ext \in [1 .. 1 -> PaymentLists]
    /\ payQueue = <<>>
    /\ pIdx = 0
    /\ pPay = 0
    /\ registered = <<>>
    /\ pCount = 0
    /\ pResult = NoResult
    /\ pLog = <<>>
    /\ pReqs = 0
    /\ pLimited = FALSE

SpecEndpoint == EndpointInit /\ [][PayNext]_vars

(***************************************************************************)
(* Claims about the payments                                               *)
(***************************************************************************)
\* C3: each external payment of a ledger entry is registered against that entry
\* at most once over any number of runs of payment sync.
C3_EachPaymentRegisteredOnce ==
    \A i, j \in DOMAIN registered :
        (registered[i].entry = registered[j].entry /\ registered[i].pay = registered[j].pay)
            => i = j

\* C24: once a detail request of a run was answered with status 429, the run
\* is over: it makes no further request and registers no further payment, and
\* its notification reports the number of entries processed before the 429.
C24_RateLimitEndsRun ==
    pLimited =>
        /\ pPc = "done"
        /\ pResult.processed = pCount

\* C31: in the payment loops no two follow-up requests (the detail requests of
\* successive entries, and the transaction request that follows a detail
\* request) are issued without a delay between them.
C31_DelayBetweenRequests ==
    \A i \in DOMAIN pLog :
        (i > 1 /\ pLog[i].ev = "request") => pLog[i - 1].ev = "sleep"

\* C39: a failure while one open entry is processed never stops the run of
\* payment sync: unless the rate limit was hit, the loop goes on while open
\* entries are left, and each payment of an entry is taken up in its turn
\* whatever became of the payment before it.
C39_FailureNeverStopsRun ==
    [][/\ (pPc = "register" /\ pPay < Len(ext[payQueue[pIdx]])) =>
            (pPc' = "register" /\ pPay' = pPay + 1 /\ pIdx' = pIdx)
       /\ (pPc \in {"respond", "register"} /\ pIdx < Len(payQueue) /\ ~pLimited') =>
            pPc' /= "done"]_vars

\* C22: payment sync asks for the payments of an entry at the endpoint that the
\* entry was ingested from: an entry made by salary sync at salaries, one made
\* by tax sync at taxes, one made by purchase-bill sync at purchase_bills (and
\* one made by sales-invoice sync at sales_invoices), under the entry's
\* external id.
C22_QueriedWhereIngested ==
    pPc = "respond" =>
        LET move == payables[payQueue[pIdx]].move
            last == pLog[Len(pLog)]
        IN  /\ last.ev = "request"
            /\ last.id = move.pid
            /\ \A k \in LedgerKinds : \A r \in LedgerRecs(k) :
                  PostedMove(r) = move => last.endpoint = IngestEndpoint[k]

\* the payments of a tax entry whose name holds the marker of the salaries were
\* asked for at taxes
C22_Witness ==
    /\ pPc = "respond"
    /\ payables[payQueue[pIdx]].move.ref.prefix = "VERGI-"
    /\ payables[payQueue[pIdx]].move.ref.suffix = "MAAS-A"
    /\ pLog[Len(pLog)] = Request("taxes", payables[payQueue[pIdx]].move.pid)

(***************************************************************************)
(* TaxResolver: _find_odoo_tax                                             *)
(***************************************************************************)
\* amounts and rates are counted in thousandths: 20 is 20000, 0.20 is 200
Unit == 1000
\* rate / 100.0
Hundred == 100
\* the largest number of taxes in the table before the first call
MaxTaxes == 2
\* the largest sequence number of a tax
MaxSeq == 2
\* the largest number of calls
MaxTaxCalls == 1
\* the largest number of calls in a row with the same rate
MaxSameCalls == 3
\* column sequence of a tax that is created without one
DefaultSeq == 1
\* a name that holds no digit
NoPct == -1

\* the percentage that rates, amounts and names are about
Pct == 20

TaxUses == {"sale", "purchase", "none"}
Directions == {"sale", "purchase"}

\* vat_rate, as the detail attributes give it
Rates == {NoRate, BadRate, 0, Pct * Unit, (Pct * Unit) \div Hundred}

TaxAmounts == {Pct * Unit, (Pct * Unit) \div Hundred}

\* a tax name: the name that auto-provisioning gives for a percentage
\* ("Parasut KDV %20 (Dahil - Oto)"), or a name given by hand, with the digits
\* it holds ("KDV %20") or without any ("Vergi")
TaxNames ==
    {n \in [auto : BOOLEAN, pct : {Pct, NoPct}] : n.auto => n.pct /= NoPct}

\* type_tax_use as the column orders it
UseRank(use) == CASE use = "sale" -> 3 [] use = "purchase" -> 2 [] OTHER -> 1

\* a row that no search of the resolver can find and that it never writes: it is
\* inactive or exclusive and its name was given by hand. One such row stands for
\* all of them.
UnseenRow ==
    [name |-> [auto |-> FALSE, pct |-> Pct], amount |-> Pct * Unit, use |-> "sale",
     incl |-> FALSE, active |-> TRUE, seq |-> DefaultSeq, base |-> FALSE]

\* the rows of account.tax. The resolver reads the sequence of active inclusive
\* rows only. On a row that carries an auto-provisioning name and is inactive or
\* exclusive it writes active, price_include and include_base_amount whatever
\* they hold: such a row is exclusive, or inactive, or inactive, exclusive and
\* compounding at once.
TaxRows ==
    {r \in [name : TaxNames, amount : TaxAmounts, use : TaxUses, incl : BOOLEAN,
            active : BOOLEAN, seq : 1 .. MaxSeq, base : BOOLEAN] :
        /\ ~(r.incl /\ r.active) => r.seq = DefaultSeq
        /\ (r.incl /\ r.active) => ~r.base
        /\ (~(r.incl /\ r.active) /\ r.name.auto) => (r.base <=> (~r.incl /\ ~r.active))
        /\ (~(r.incl /\ r.active) /\ ~r.name.auto) => r = UnseenRow}

\* a number for each row, to list the table one way only before the first call
RowKey(r) ==
    ((((((IF r.name.auto THEN 2 ELSE IF r.name.pct = NoPct THEN 0 ELSE 1) * 2
        + (IF r.amount = Pct * Unit THEN 1 ELSE 0)) * 3
        + UseRank(r.use) - 1) * 2
        + (IF r.incl THEN 1 ELSE 0)) * 2
        + (IF r.active THEN 1 ELSE 0)) * 2
        + (IF r.base THEN 1 ELSE 0)) * (MaxSeq + 1) + r.seq

\* table account.tax before the first call: the tables of at most n rows,
\* listed by RowKey
RECURSIVE TablesUpTo(_)
TablesUpTo(n) ==
    IF n = 0 THEN {<<>>}
    ELSE LET shorter == TablesUpTo(n - 1)
             longest == {t \in shorter : Len(t) = n - 1}
         IN  shorter \cup
             UNION {{Append(t, r) :
                       r \in {q \in TaxRows :
                                t /= <<>> => RowKey(t[Len(t)]) <= RowKey(q)}} :
                    t \in longest}

\* int(rate)
IntPart(rate) == rate \div Unit

\* tax_name = f"Parasut KDV %{int(rate)} (Dahil - Oto)"
AutoName(rate) == [auto |-> TRUE, pct |-> IntPart(rate)]

\* str(n) as its digits
RECURSIVE Digits(_)
Digits(n) == IF n < 10 THEN <<n>> ELSE Append(Digits(n \div 10), n % 10)

IsInfix(a, b) ==
    \E i \in 0 .. (Len(b) - Len(a)) : SubSeq(b, i + 1, i + Len(a)) = a

\* ('name', 'ilike', str(int(rate)))
NameILike(name, k) == name.pct /= NoPct /\ IsInfix(Digits(k), Digits(name.pct))

\* ('amount', 'in', [rate, rate / 100.0])
AmountMatch(row, rate) == row.amount \in {rate, rate \div Hundred}

Tier1(store, rate, use) ==
    {i \in DOMAIN store : /\ AmountMatch(store[i], rate)
                          /\ store[i].use = use
                          /\ store[i].incl
                          /\ store[i].active}

Tier2(store, rate) ==
    {i \in DOMAIN store : /\ AmountMatch(store[i], rate)
                          /\ store[i].incl
                          /\ store[i].active}

Tier3(store, rate) ==
    {i \in DOMAIN store : /\ NameILike(store[i].name, IntPart(rate))
                          /\ store[i].incl
                          /\ store[i].active}

\* taxes[0] under order='sequence' (rows of equal sequence come in any order)
AnyOfThem(S, store) == S
FirstBySequence(S, store) ==
    {i \in S : \A j \in S : store[i].seq <= store[j].seq}

\* taxes[0] under order='type_tax_use desc, sequence'
FirstByUseThenSequence(S, store) ==
    {i \in S : \A j \in S :
        \/ UseRank(store[i].use) > UseRank(store[j].use)
        \/ /\ UseRank(store[i].use) = UseRank(store[j].use)
           /\ store[i].seq <= store[j].seq}

\* with_context(active_test=False).search([('name', '=', tax_name)], limit=1)
ActiveByName(store, name) ==
    {i \in DOMAIN store : store[i].name = name /\ store[i].active}
ExistingByName(store, name) ==
    {i \in DOMAIN store : store[i].name = name}

\* existing_by_name.active = True, existing_by_name.write(update_vals)
KeptAsItIs(row) == [row EXCEPT !.active = TRUE]
Forced(row) == [row EXCEPT !.active = TRUE, !.incl = TRUE, !.base = FALSE]

\* create_vals
CreateVals(rate, use) ==
    [name |-> AutoName(rate), amount |-> rate, use |-> use, incl |-> TRUE,
     active |-> TRUE, seq |-> DefaultSeq, base |-> FALSE]

\* the early returns: vat_rate is None, is not a number, or is 0
NoSearchWhenNone(rate) == rate \in {NoRate, BadRate}
NoSearch(rate) == rate \in {NoRate, BadRate} \/ rate = 0

Found(store, S, tier) ==
    {[store |-> store, tax |-> i, inclusive |-> TRUE, tier |-> tier] : i \in S}

\* the outcomes of _find_odoo_tax(vat_rate, type_tax_use): the table after the
\* call, the tax returned, the flag returned and the branch that returned
FindOdooTax(store, rate, use) ==
    IF NoSearch(rate)
    THEN {[store |-> store, tax |-> NoTax, inclusive |-> FALSE, tier |-> 0]}
    ELSE IF Tier1(store, rate, use) /= {}
    THEN Found(store, FirstBySequence(Tier1(store, rate, use), store), 1)
    ELSE IF Tier2(store, rate) /= {}
    THEN Found(store, FirstByUseThenSequence(Tier2(store, rate), store), 2)
    ELSE IF Tier3(store, rate) /= {}
    THEN Found(store, FirstBySequence(Tier3(store, rate), store), 3)
    ELSE IF ExistingByName(store, AutoName(rate)) /= {}
    THEN {[store |-> [store EXCEPT ![i] = Forced(@)], tax |-> i,
           inclusive |-> TRUE, tier |-> 4] :
             i \in ExistingByName(store, AutoName(rate))}
    ELSE {[store |-> Append(store, CreateVals(rate, use)), tax |-> Len(store) + 1,
           inclusive |-> TRUE, tier |-> 5]}

TaxResolve ==
    /\ tCalls < MaxTaxCalls
    /\ \E rate \in Rates, use \in Directions :
         \E out \in FindOdooTax(taxes, rate, use) :
           /\ tRate' = rate
           /\ tUse' = use
           /\ tPrev' = taxes
           /\ taxes' = out.store
           /\ tRet' = [tax |-> out.tax, inclusive |-> out.inclusive, tier |-> out.tier]
    /\ tCalls' = tCalls + 1
    /\ UNCHANGED tFirst
    /\ UNCHANGED taxOthers

\* one more of a row of calls that all carry the same rate, one that is neither
\* absent nor zero, each in the direction its caller asks for
TaxResolveSame ==
    /\ tCalls < MaxSameCalls
    /\ \E rate \in (IF tCalls = 0 THEN TaxAmounts ELSE {tRate}), use \in Directions :
         \E out \in FindOdooTax(taxes, rate, use) :
           /\ tRate' = rate
           /\ tUse' = use
           /\ tPrev' = taxes
           /\ taxes' = out.store
           /\ tRet' = [tax |-> out.tax, inclusive |-> out.inclusive, tier |-> out.tier]
           /\ tFirst' = IF tCalls = 0
                        THEN [tax |-> out.tax, tier |-> out.tier, use |-> use,
                              size |-> Len(taxes)]
                        ELSE tFirst
    /\ tCalls' = tCalls + 1
    /\ UNCHANGED taxOthers

TaxInit ==
    /\ FetchIdle
    /\ IdentIdle
    /\ LedgerIdle
    /\ PayIdle
    /\ ConfigIdle
    /\ IncludedIdle
    /\ ValueIdle
    /\ CodeIdle
    /\ taxes \in TablesUpTo(MaxTaxes)
    /\ tRate = NoRate
    /\ tUse = "sale"
    /\ tPrev = <<>>
    /\ tRet = NoReturn
    /\ tCalls = 0
    /\ tFirst = NoFirst

TaxNext == TaxResolve

SpecTax == TaxInit /\ [][TaxNext]_vars

SpecTaxSame == TaxInit /\ [][TaxResolveSame]_vars

(***************************************************************************)
(* Claims about the tax resolver                                           *)
(***************************************************************************)
\* the table leaves no choice to a call with the rate, in either direction
NoChoice(store, rate) ==
    \A use \in Directions : Cardinality(FindOdooTax(store, rate, use)) = 1

\* C35 (as claimed): across calls with the same non-zero rate, in any mix of
\* directions, on a table that nothing else changes, at most one tax is created
\* and every call after the first returns the tax that the first call returned.
C35_SameTaxEveryCall ==
    (tFirst /= NoFirst /\ NoChoice(taxes, tRate)) =>
        /\ Len(taxes) <= tFirst.size + 1
        /\ tRet.tax = tFirst.tax

\* C35 (amended): across such calls at most one tax is created; when the first
\* call created a tax or took up the one that carries the provisioning name,
\* every later call returns that tax in either direction; when the first call
\* found a tax by search, no call changes the table and a later call in the
\* direction of the first returns a tax of the same tier and sequence number.
C35_OneProvisionedTax ==
    tFirst /= NoFirst =>
        /\ Len(taxes) <= tFirst.size + 1
        /\ tFirst.tier \in {4, 5} => tRet.tax = tFirst.tax
        /\ tFirst.tier \in {1, 2, 3} =>
              /\ Len(taxes) = tFirst.size
              /\ taxes = tPrev
              /\ tUse = tFirst.use =>
                    /\ tRet.tier = tFirst.tier
                    /\ taxes[tRet.tax].seq = taxes[tFirst.tax].seq

\* the first call created a tax for a sale; the third call, for a purchase, is
\* given the same tax although the table holds a purchase tax of the rate that
\* is not inclusive
C35_Witness ==
    /\ tCalls = 3
    /\ tFirst.tier = 5
    /\ tFirst.use = "sale"
    /\ tUse = "purchase"
    /\ tRet.tax = tFirst.tax
    /\ Len(taxes) = tFirst.size + 1
    /\ \E i \in DOMAIN taxes :
          i /= tRet.tax /\ taxes[i].use = "purchase" /\ AmountMatch(taxes[i], tRate)

\* the last call went past the early returns
Searched == tCalls > 0 /\ tRate \notin {NoRate, BadRate, 0}

\* the first non-empty search tier of a call
FirstTier(store, rate, use) ==
    IF Tier1(store, rate, use) /= {} THEN Tier1(store, rate, use)
    ELSE IF Tier2(store, rate) /= {} THEN Tier2(store, rate)
    ELSE Tier3(store, rate)

\* what a call can return: the tax (its number and its row) and the flag
Returned(store, rate, use) ==
    {[tax |-> o.tax, row |-> o.store[o.tax], inclusive |-> o.inclusive] :
        o \in FindOdooTax(store, rate, use)}

\* C11: from one and the same tax table, resolving 20 and resolving 0.20 for
\* sales return the same local tax and the same inclusive flag.
C11_SameMatchForBothForms ==
    Returned(taxes, Pct * Unit, "sale") = Returned(taxes, (Pct * Unit) \div Hundred, "sale")

\* C12: a call with rate 0 or without a rate returns "no tax" with the flag
\* false and leaves the tax table as it found it.
C12_ZeroRateNoTax ==
    (tCalls > 0 /\ tRate \in {0, NoRate}) =>
        /\ tRet.tax = NoTax
        /\ ~tRet.inclusive
        /\ taxes = tPrev

\* rate 0 was resolved against a table in which a search for it would hit
C12_Witness ==
    /\ tCalls > 0
    /\ tRate = 0
    /\ tRet.tax = NoTax
    /\ \E i \in DOMAIN tPrev :
         tPrev[i].incl /\ tPrev[i].active /\ NameILike(tPrev[i].name, 0)

\* C13 as stated: the tax returned is of the first non-empty tier and has the
\* lowest sequence number of that tier; provisioning only when all are empty.
C13_LowestSequenceOfFirstTier ==
    Searched =>
        LET T == FirstTier(tPrev, tRate, tUse)
        IN  IF T /= {}
            THEN /\ tRet.tier \in 1 .. 3
                 /\ tRet.tax \in T
                 /\ \A j \in T : tPrev[tRet.tax].seq <= tPrev[j].seq
            ELSE tRet.tier \in {4, 5}

\* C13 amended: the tax returned is of the first non-empty tier; in tiers 1 and
\* 3 it has the lowest sequence number of the tier, in tier 2 it is of the
\* direction that sorts first (sale, then purchase, then none) and has the
\* lowest sequence number among the taxes of that direction; provisioning only
\* when all three tiers are empty.
C13_FirstTierInSearchOrder ==
    Searched =>
        LET T == FirstTier(tPrev, tRate, tUse)
            second == Tier1(tPrev, tRate, tUse) = {} /\ Tier2(tPrev, tRate) /= {}
            best == IF second
                    THEN {i \in T : \A j \in T : UseRank(tPrev[i].use) >= UseRank(tPrev[j].use)}
                    ELSE T
        IN  IF T /= {}
            THEN /\ tRet.tier \in 1 .. 3
                 /\ tRet.tax \in best
                 /\ \A j \in best : tPrev[tRet.tax].seq <= tPrev[j].seq
                 /\ taxes = tPrev
            ELSE tRet.tier \in {4, 5}

\* tier 2 answered with a tax that has not the lowest sequence number of the tier
C13_Witness ==
    /\ Searched
    /\ tRet.tier = 2
    /\ \E j \in Tier2(tPrev, tRate) : tPrev[j].seq < tPrev[tRet.tax].seq

\* C14: whenever a call returns a tax, the flag it returns is true and the tax
\* is price-inclusive.
C14_OnlyInclusive ==
    (tCalls > 0 /\ tRet.tax /= NoTax) =>
        /\ tRet.inclusive
        /\ taxes[tRet.tax].incl

\* the tax returned was exclusive when the call found it
C14_Witness ==
    /\ tCalls > 0
    /\ tRet.tax /= NoTax
    /\ tRet.tax \in DOMAIN tPrev
    /\ ~tPrev[tRet.tax].incl

\* C15: when no tier matches and a tax with the auto-provision name of the rate
\* exists, active or not, no tax is created: that tax is made active, inclusive
\* and not compounding, and is returned; a tax is created only when no tax has
\* that name.
C15_ProvisionedTaxIsReused ==
    Searched =>
        LET named == {i \in DOMAIN tPrev : tPrev[i].name = AutoName(tRate)}
        IN  /\ Len(taxes) /= Len(tPrev) => named = {}
            /\ (FirstTier(tPrev, tRate, tUse) = {} /\ named /= {}) =>
                  /\ Len(taxes) = Len(tPrev)
                  /\ tRet.tax \in named
                  /\ taxes[tRet.tax].active
                  /\ taxes[tRet.tax].incl
                  /\ ~taxes[tRet.tax].base
                  /\ \A i \in DOMAIN tPrev : i /= tRet.tax => taxes[i] = tPrev[i]
            /\ (FirstTier(tPrev, tRate, tUse) = {} /\ named = {}) =>
                  /\ Len(taxes) = Len(tPrev) + 1
                  /\ tRet.tax = Len(taxes)

\* an inactive, compounding tax with the auto-provision name was reused
C15_Witness ==
    /\ Searched
    /\ tRet.tier = 4
    /\ ~tPrev[tRet.tax].active
    /\ tPrev[tRet.tax].base

(***************************************************************************)
(* LineValuationEngine: the price calculation of a detail line             *)
(* (_parse_purchase_bill_detail, action_sync_sales_invoices)               *)
(***************************************************************************)
\* the largest quantity and the largest amount of a detail
MaxQty == 2
MaxMoney == 2
\* the smallest amount of a detail (a credit)
MinMoney == -1

Money == MinMoney .. MaxMoney

\* _find_odoo_tax returns a tax exactly when the rate is a number other than 0
HasTax(rate) == ~NoSearch(rate)

\* the attributes of a detail node (an absent or null amount reads as 0.0) with
\* the tax found for it and the flag that came with the tax. The flag is an
\* input of the calculation: the block is taken through both of its values.
Details ==
    {d \in [quantity : 0 .. MaxQty, unit_price : Money, net_total : Money,
            total : Money, vat_amount : Money, vat_rate : Rates \ {BadRate},
            tax : BOOLEAN, inclusive : BOOLEAN] :
        /\ d.tax = HasTax(d.vat_rate)
        /\ d.inclusive => d.tax}

\* qty = line_vals['quantity'] or 1.0
Qty(d) == IF d.quantity = 0 THEN 1 ELSE d.quantity

\* a price, kept as a fraction
Frac(n, m) == [num |-> n, den |-> m]
SameFrac(a, b) == a.num * b.den = b.num * a.den

\* "Use GROSS price as unit price for inclusive taxes"
InclusiveValue(d) ==
    IF d.total > 0 THEN Frac(d.total, Qty(d))
    ELSE IF d.net_total > 0 THEN Frac(d.net_total + d.vat_amount, Qty(d))
    ELSE Frac(d.unit_price * (Hundred * Unit + d.vat_rate), Hundred * Unit * Qty(d))

\* "Use NET price for exclusive taxes"
ExclusiveValue(d) ==
    IF d.unit_price > 0 THEN Frac(d.unit_price, 1)
    ELSE IF d.net_total > 0 THEN Frac(d.net_total, Qty(d))
    ELSE Frac(d.total - d.vat_amount, Qty(d))

\* "No tax: total, net, and unit_price should be same."
NoTaxValueUndivided(d) ==
    Frac(IF d.unit_price > 0 THEN d.unit_price
         ELSE IF d.net_total > 0 THEN d.net_total ELSE d.total, 1)
NoTaxValue(d) ==
    LET val_to_use == IF d.unit_price > 0 THEN d.unit_price
                      ELSE IF d.net_total > 0 THEN d.net_total ELSE d.total
    IN  IF val_to_use = d.unit_price THEN Frac(val_to_use, 1)
        ELSE Frac(val_to_use, Qty(d))

\* line_vals['price_unit']
PriceUnit(d) ==
    IF d.tax
    THEN IF d.inclusive THEN InclusiveValue(d) ELSE ExclusiveValue(d)
    ELSE NoTaxValue(d)

\* 'quantity': float(d_attrs.get('quantity', 1.0))
LineQuantity(d) == d.quantity

Valuate ==
    /\ vPc = "idle"
    /\ vPrice' = PriceUnit(vDetail)
    /\ vQuantity' = LineQuantity(vDetail)
    /\ vPc' = "valued"
    /\ UNCHANGED vDetail
    /\ UNCHANGED valueOthers

ValueInit ==
    /\ FetchIdle
    /\ IdentIdle
    /\ LedgerIdle
    /\ PayIdle
    /\ ConfigIdle
    /\ IncludedIdle
    /\ TaxIdle
    /\ CodeIdle
    /\ vPc = "idle"
    /\ vDetail \in Details
    /\ vPrice = Frac(0, 1)
    /\ vQuantity = 0

ValueNext == Valuate

SpecValue == ValueInit /\ [][ValueNext]_vars

(***************************************************************************)
(* Claims about the line valuation                                         *)
(***************************************************************************)
\* C16: with an inclusive tax and a gross total other than zero, the unit price
\* of the line is total / quantity, whatever the other amounts are.
C16_InclusiveUsesGross ==
    (vPc = "valued" /\ vDetail.tax /\ vDetail.inclusive
       /\ vDetail.total /= 0 /\ vDetail.quantity /= 0) =>
        SameFrac(vPrice, Frac(vDetail.total, vDetail.quantity))

C18_NoTaxOnlyTotal ==
    (vPc = "valued" /\ ~vDetail.tax /\ vDetail.unit_price = 0
       /\ vDetail.net_total = 0 /\ vDetail.quantity /= 0) =>
        SameFrac(vPrice, Frac(vDetail.total, vDetail.quantity))

\* a line of quantity 2 whose only amount is the total 2 was valued at 1
C18_Witness ==
    /\ vPc = "valued"
    /\ ~vDetail.tax
    /\ vDetail.unit_price = 0
    /\ vDetail.net_total = 0
    /\ vDetail.quantity = MaxQty
    /\ vDetail.total = MaxQty
    /\ SameFrac(vPrice, Frac(1, 1))

\* the divisor of the specification: the quantity, or 1 when the quantity is
\* absent or zero
QuantityOrOne == IF vDetail.quantity = 0 THEN 1 ELSE vDetail.quantity

\* C28: the valuation never divides by zero, and the line built for a detail
\* whose quantity is absent or zero carries the quantity 1.
C28_ZeroQuantityBecomesOne ==
    vPc = "valued" =>
        /\ vPrice.den /= 0
        /\ vQuantity = QuantityOrOne

\* C29: with no tax the unit price of the line is the source unit_price when
\* that is not zero, negative or positive, taken as it is; else net_total
\* divided by the quantity when net_total is not zero; else total divided by
\* the quantity.
C29_NoTaxPrefersUnitPrice ==
    (vPc = "valued" /\ ~vDetail.tax) =>
        SameFrac(vPrice,
                 IF vDetail.unit_price /= 0 THEN Frac(vDetail.unit_price, 1)
                 ELSE IF vDetail.net_total /= 0
                 THEN Frac(vDetail.net_total, QuantityOrOne)
                 ELSE Frac(vDetail.total, QuantityOrOne))

\* the gross amount of a line as the specification derives it, a fraction:
\* total, else net_total + vat_amount, else quantity x unit_price x (1 + rate/100)
GrossOfLine ==
    IF vDetail.total /= 0 THEN Frac(vDetail.total, 1)
    ELSE IF vDetail.net_total /= 0
    THEN Frac(vDetail.net_total + vDetail.vat_amount, 1)
    ELSE Frac(QuantityOrOne * vDetail.unit_price * (Hundred * Unit + vDetail.vat_rate),
              Hundred * Unit)

\* C30: with an inclusive tax, the unit price of the line times the quantity is
\* the gross amount of the line.
C30_InclusiveTimesQuantityIsGross ==
    (vPc = "valued" /\ vDetail.tax /\ vDetail.inclusive) =>
        SameFrac(Frac(vPrice.num * QuantityOrOne, vPrice.den), GrossOfLine)

(***************************************************************************)
(* Journal code generation: action_sync_accounts, "Generic code generation"*)
(***************************************************************************)
\* the longest account name
MaxNameLen == 6
\* the number of counter values whose codes the existing journals can hold
MaxTaken == 2
\* name[:5]
CodeLen == 5
\* code_base[:4]
StemLen == 4

\* the characters of account names: a lower-case letter, a digit, a space
NameChars == {"a", "1", " "}

\* the non-empty account names
AccountNames == UNION {[1 .. n -> NameChars] : n \in 1 .. MaxNameLen}

\* s[:n]
Prefix(s, n) == SubSeq(s, 1, IF Len(s) < n THEN Len(s) ELSE n)

\* str.upper()
Upper(s) == [i \in DOMAIN s |-> IF s[i] = "a" THEN "A" ELSE s[i]]

\* str.replace(" ", "")
RECURSIVE NoSpaces(_)
NoSpaces(s) ==
    IF s = <<>> THEN <<>>
    ELSE IF s[1] = " " THEN NoSpaces(Tail(s)) ELSE <<s[1]>> \o NoSpaces(Tail(s))

\* the character of a digit
DigitChar(d) == <<"0", "1", "2", "3", "4", "5", "6", "7", "8", "9">>[d + 1]

\* str(n) as a string of characters
Str(n) == [i \in DOMAIN Digits(n) |-> DigitChar(Digits(n)[i])]

\* code_base = name[:5].upper().replace(" ", "")
CodeBase(name) == NoSpaces(Upper(Prefix(name, CodeLen)))

\* f"{code_base[:4]}{counter}"
Numbered(base, k) == Prefix(base, StemLen) \o Str(k)

\* codes of journals that have nothing to do with the name
OtherCodes == {<<"Z">>}

\* the codes the journals can hold before an account of that name is synced
ExistingCodes(name) ==
    SUBSET ({CodeBase(name)} \cup {Numbered(CodeBase(name), k) : k \in 1 .. MaxTaken}
              \cup OtherCodes)

\* code = code_base; counter = 1
CodeStart ==
    /\ cPc = "start"
    /\ cPc' = "loop"
    /\ code' = CodeBase(cName)
    /\ counter' = 1
    /\ UNCHANGED <<cName, cExisting, cJournals, cTried>>
    /\ UNCHANGED codeOthers

\* while Journal.search([('code', '=', code)]): the search finds a journal and
\* the body of the loop runs
CodeTaken ==
    /\ cPc = "loop"
    /\ code \in cJournals
    /\ cTried' = Append(cTried, code)
    /\ code' = Numbered(CodeBase(cName), counter)
    /\ counter' = counter + 1
    /\ UNCHANGED <<cPc, cName, cExisting, cJournals>>
    /\ UNCHANGED codeOthers

\* the search finds nothing: vals['code'] = code; Journal.create(vals)
CodeFree ==
    /\ cPc = "loop"
    /\ code \notin cJournals
    /\ cTried' = Append(cTried, code)
    /\ cJournals' = cJournals \cup {code}
    /\ cPc' = "done"
    /\ UNCHANGED <<cName, cExisting, code, counter>>
    /\ UNCHANGED codeOthers

CodeInit ==
    /\ FetchIdle
    /\ IdentIdle
    /\ LedgerIdle
    /\ PayIdle
    /\ ConfigIdle
    /\ IncludedIdle
    /\ TaxIdle
    /\ ValueIdle
    /\ cPc = "start"
    /\ cName \in AccountNames
    /\ cExisting \in ExistingCodes(cName)
    /\ cJournals = cExisting
    /\ code = <<>>
    /\ counter = 0
    /\ cTried = <<>>

CodeNext == CodeStart \/ CodeTaken \/ CodeFree

SpecCode == CodeInit /\ [][CodeNext]_vars

(***************************************************************************)
(* Claims about journal code generation                                    *)
(***************************************************************************)
\* C20: for every non-empty account name and every set of N existing journal
\* codes, code generation ends after at most N + 1 candidate codes were tried
\* and yields a code that is not in the existing set.
C20_AtMostNPlusOneTries ==
    /\ Len(cTried) <= Cardinality(cExisting) + 1
    /\ cPc = "done" => code \notin cExisting

(***************************************************************************)
(* Credentials and configuration: _get_parasut_headers and the start of    *)
(* every sync operation                                                    *)
(***************************************************************************)
\* all([client_id, client_secret, username, password])
AllCredentials(cfg) == \A f \in Credentials : cfg[f]

\* an operation is called. The two payment operations look for open entries
\* first and return a notification when there is none.
ConfigStart ==
    /\ gPc \in {"idle", "done"}
    /\ \E impl \in Impls, op \in {"fetch", "payments"} :
         /\ gImpl' = impl
         /\ gOp' = op
         /\ IF op = "payments" /\ ~gOpen
            THEN /\ gPc' = "done"
                 /\ gResult' = "nothing_open"
            ELSE /\ gPc' = "headers"
                 /\ gResult' = "none"
    /\ gNet' = <<>>
    /\ gWritten' = FALSE
    /\ UNCHANGED <<gCfg, gOpen>>
    /\ UNCHANGED configOthers

\* _get_parasut_headers up to the token request: the connector tests the four
\* credentials, the settings class builds the payload from whatever it holds
ConfigCredentials ==
    /\ gPc = "headers"
    /\ IF gImpl = "connector" /\ ~AllCredentials(gCfg)
       THEN /\ gPc' = "done"
            /\ gResult' = "configuration_error"
       ELSE /\ gPc' = "token"
            /\ gResult' = gResult
    /\ UNCHANGED <<gImpl, gOp, gCfg, gOpen, gNet, gWritten>>
    /\ UNCHANGED configOthers

\* requests.post(token_url, ...): the server grants a token only to a payload
\* that holds all four credentials, and need not grant it then
ConfigToken ==
    /\ gPc = "token"
    /\ gNet' = Append(gNet, "token")
    /\ \E granted \in BOOLEAN :
         /\ granted => AllCredentials(gCfg)
         /\ IF granted
            THEN /\ gPc' = "company"
                 /\ gResult' = gResult
            ELSE /\ gPc' = "done"
                 /\ gResult' = "authentication_error"
    /\ UNCHANGED <<gImpl, gOp, gCfg, gOpen, gWritten>>
    /\ UNCHANGED configOthers

\* company_id is read: only _fetch_from_parasut of the connector tests it
ConfigCompany ==
    /\ gPc = "company"
    /\ IF gImpl = "connector" /\ gOp = "fetch" /\ ~gCfg["company_id"]
       THEN /\ gPc' = "done"
            /\ gResult' = "configuration_error"
       ELSE /\ gPc' = "request"
            /\ gResult' = gResult
    /\ UNCHANGED <<gImpl, gOp, gCfg, gOpen, gNet, gWritten>>
    /\ UNCHANGED configOthers

\* the first request under f"{base_url}/{company_id}/..." and what follows it:
\* records can only come back, and be written, when the company id is set
ConfigRequest ==
    /\ gPc = "request"
    /\ gNet' = Append(gNet, "data")
    /\ \E written \in BOOLEAN :
         /\ written => gCfg["company_id"]
         /\ gWritten' = written
    /\ gPc' = "done"
    /\ gResult' = "notification"
    /\ UNCHANGED <<gImpl, gOp, gCfg, gOpen>>
    /\ UNCHANGED configOthers

ConfigInit ==
    /\ FetchIdle
    /\ IdentIdle
    /\ LedgerIdle
    /\ PayIdle
    /\ TaxIdle
    /\ ValueIdle
    /\ CodeIdle
    /\ IncludedIdle
    /\ gImpl = "settings"
    /\ gOp = "fetch"
    /\ gCfg \in [CfgFields -> BOOLEAN]
    /\ gOpen \in BOOLEAN
    /\ gPc = "idle"
    /\ gNet = <<>>
    /\ gResult = "none"
    /\ gWritten = FALSE

ConfigNext ==
    ConfigStart \/ ConfigCredentials \/ ConfigToken \/ ConfigCompany \/ ConfigRequest

SpecConfig == ConfigInit /\ [][ConfigNext]_vars

(***************************************************************************)
(* Claims about the configuration                                          *)
(***************************************************************************)
\* C26: when one of the five configuration values (client id, client secret,
\* username, password, company id) is missing, a sync operation sends no
\* request and writes nothing to the ledger store, and it ends with a
\* configuration error.
C26_MissingValueFailsFirst ==
    (gPc /= "idle" /\ \E f \in CfgFields : ~gCfg[f]) =>
        /\ gNet = <<>>
        /\ ~gWritten
        /\ gPc = "done" => gResult = "configuration_error"

(***************************************************************************)
(* RelationshipResolver: _find_in_included and the batches it is given     *)
(***************************************************************************)
\* largest number of pages the fetch returned
MaxBatches == 2
\* largest number of nodes in the included list of one page
MaxIncluded == 2

\* the nodes that a page's included list can hold and the relationships that
\* are looked up: two type names that differ in one letter, two ids
NodeTypes == {"products", "product"}
NodeIds == {1, 2}
Refs == [type : NodeTypes, id : NodeIds]
Nodes == Refs \ {[type |-> "product", id |-> 2]}

IncludedLists == UNION {[1 .. n -> Nodes] : n \in 0 .. MaxIncluded}

\* the included lists of every page, one after the other
AnyIncluded(batches, p) ==
    LET RECURSIVE Join(_)
        Join(k) == IF k = 0 THEN <<>> ELSE Join(k - 1) \o batches[k]
    IN  Join(Len(batches))

\* batch['included'] inside "for batch in batches"
BatchIncluded(batches, p) == batches[p]

\* for inc in included: if inc.get('type') == type_name and
\* inc.get('id') == item_id: return inc; return None
RECURSIVE ScanFrom(_, _, _, _)
ScanFrom(included, k, type_name, item_id) ==
    IF k > Len(included) THEN 0
    ELSE IF included[k].type = type_name /\ included[k].id = item_id THEN k
    ELSE ScanFrom(included, k + 1, type_name, item_id)

FindInIncluded(included, type_name, item_id) ==
    ScanFrom(included, 1, type_name, item_id)

\* batches = self._fetch_from_parasut(...); for batch in batches:
IncludedStart ==
    /\ nPc = "idle"
    /\ Len(nBatches) > 0
    /\ nPc' = "run"
    /\ nPage' = 1
    /\ UNCHANGED <<nBatches, nRef, nRet>>
    /\ UNCHANGED includedOthers

\* self._find_in_included(batch['included'], type, id) for one relationship of a
\* primary record of the page
IncludedLookup ==
    /\ nPc = "run"
    /\ \E ref \in Refs :
          /\ nRef' = ref
          /\ nRet' = FindInIncluded(BatchIncluded(nBatches, nPage), ref.type, ref.id)
    /\ UNCHANGED <<nPc, nBatches, nPage>>
    /\ UNCHANGED includedOthers

\* the next iteration of "for batch in batches"
IncludedNextBatch ==
    /\ nPc = "run"
    /\ nPage < Len(nBatches)
    /\ nPage' = nPage + 1
    /\ nRef' = NoRef
    /\ nRet' = 0
    /\ UNCHANGED <<nPc, nBatches>>
    /\ UNCHANGED includedOthers

IncludedFinish ==
    /\ nPc = "run"
    /\ nPage = Len(nBatches)
    /\ nPc' = "done"
    /\ UNCHANGED <<nBatches, nPage, nRef, nRet>>
    /\ UNCHANGED includedOthers

IncludedInit ==
    /\ FetchIdle
    /\ IdentIdle
    /\ LedgerIdle
    /\ PayIdle
    /\ TaxIdle
    /\ ValueIdle
    /\ CodeIdle
    /\ ConfigIdle
    /\ nPc = "idle"
    /\ nBatches \in UNION {[1 .. n -> IncludedLists] : n \in 1 .. MaxBatches}
    /\ nPage = 0
    /\ nRef = NoRef
    /\ nRet = 0

IncludedNext ==
    IncludedStart \/ IncludedLookup \/ IncludedNextBatch \/ IncludedFinish

SpecIncluded == IncludedInit /\ [][IncludedNext]_vars

(***************************************************************************)
(* Claims about the relationship lookup                                    *)
(***************************************************************************)
\* the positions in a list of the nodes whose type and id are those of the
\* relationship
Matching(included, ref) ==
    {k \in DOMAIN included : included[k].type = ref.type /\ included[k].id = ref.id}

\* C32: a relationship of a primary record is resolved only against the
\* included list of the record's own page: the lookup returns the first node of
\* that list whose type and id both equal those of the relationship, and None
\* when the list holds no such node, whatever the lists of other pages hold.
C32_ResolvedInOwnPage ==
    (nPc = "run" /\ nRef /= NoRef) =>
        LET m == Matching(nBatches[nPage], nRef)
        IN  IF m = {} THEN nRet = 0
            ELSE nRet \in m /\ \A k \in m : nRet <= k

\* a relationship of the second page was not resolved although the first page
\* includes its node, and the second page includes the same id under the other
\* type name
C32_Witness ==
    /\ nPc = "run"
    /\ nPage = 2
    /\ nRef /= NoRef
    /\ nRet = 0
    /\ Matching(nBatches[1], nRef) /= {}
    /\ \E k \in DOMAIN nBatches[2] :
          nBatches[2][k].id = nRef.id /\ nBatches[2][k].type /= nRef.type

====
